---- MODULE Spec2Model ----
(***************************************************************************)
(* Credit ledger engine of credit_management: CreditService on top of the  *)
(* persistence port (MongoDBManager / InMemoryDBManager), the cache port   *)
(* (InMemoryAsyncCache), the audit sink (LedgerLogger) and the request     *)
(* boundary adapter (CreditDeductionMiddleware).                           *)
(*                                                                         *)
(* The state of the stores is gathered in a record w ("world"); every      *)
(* port method and service method is an operator from a world to a world   *)
(* (plus a result), so that callers compose them as the code does.         *)
(***************************************************************************)
EXTENDS Integers, Sequences, FiniteSets, TLC

\* ------------------------------------------------------------------ bounds
MaxLedger == 4
MaxRes == 3
MaxExp == 1
MaxTicks == 1
MaxProcs == 2
MaxElapse == 2
ScenarioLen == 6

\* ------------------------------------------------------- program constants
CacheTtlSeconds == 300
ExpiryDays == 30

Users == {"u1"}
\* The accounts that exist: the calls of most specifications go to Users only.
AllUsers == Users \cup {"u2"}
Amounts == {20, 50}
DeductAmounts == {1, 50}
ForcedAmounts == {20, 60}
Plans == {"none", "p1"}
Backends == {"mongo", "memory"}

\* The clock advances in steps of one second more than the cache TTL: an
\* entry written before a step is stale after it.
TickSeconds == CacheTtlSeconds + 1
ExpiryHorizon == ExpiryDays * 24 * 60 * 60

VARIABLES
    backend,        \* which BaseDBManager the process was started with
    cache_on,       \* CreditService._cache is not None
    now,            \* datetime.utcnow() / time.time(), in seconds
    users,          \* the UserAccount records: user -> current_credits or -1 (absent)
    txs,            \* credit_transactions, in timestamp order
    expiry,         \* credit_expiry_records: id -> record
    expiry_list,    \* InMemoryDBManager._expiry_records (references, in append order)
    objs,           \* the ReservedCredits objects held by callers: id -> object
    reserved_docs,  \* MongoDB credit_reserved: id -> document
    reserved_list,  \* InMemoryDBManager._reserved (references, in append order)
    ledger,         \* credit_ledger: the audit entries
    cache,          \* InMemoryAsyncCache._store: key -> entry
    last,           \* the last call issued and its outcome
    pc,             \* concurrent tasks: position of each task
    loc,            \* concurrent tasks: locals of each task
    populated_at    \* history: when get_user_credits_info last filled a user's info key

vars == <<backend, cache_on, now, users, txs, expiry, expiry_list, objs,
          reserved_docs, reserved_list, ledger, cache, last, pc, loc, populated_at>>

stores == <<backend, cache_on, now, users, txs, expiry, expiry_list, objs,
            reserved_docs, reserved_list, ledger, cache, populated_at>>

W == [backend |-> backend, cache_on |-> cache_on, now |-> now, users |-> users,
      txs |-> txs, expiry |-> expiry, expiry_list |-> expiry_list, objs |-> objs,
      reserved_docs |-> reserved_docs, reserved_list |-> reserved_list,
      ledger |-> ledger, cache |-> cache, populated_at |-> populated_at]

Store(w) ==
    /\ backend' = w.backend
    /\ cache_on' = w.cache_on
    /\ now' = w.now
    /\ users' = w.users
    /\ txs' = w.txs
    /\ expiry' = w.expiry
    /\ expiry_list' = w.expiry_list
    /\ objs' = w.objs
    /\ reserved_docs' = w.reserved_docs
    /\ reserved_list' = w.reserved_list
    /\ ledger' = w.ledger
    /\ cache' = w.cache
    /\ populated_at' = w.populated_at

ResIds == 1..MaxRes
ExpIds == 1..MaxExp
Procs == 1..MaxProcs

NoObj == [kind |-> "none"]
NoEntry == [present |-> FALSE]
NoValue == [kind |-> "none"]
NoTtl == -1

InfoKey(u) == <<"info", u>>
BalanceKey(u) == <<"balance", u>>
CacheKeys == {InfoKey(u) : u \in AllUsers} \cup {BalanceKey(u) : u \in AllUsers}

Max(a, b) == IF a >= b THEN a ELSE b

\* ------------------------------------------------------------ models
Transaction(u, added, deducted, current, type) ==
    [user_id |-> u, credits_added |-> added, credits_deducted |-> deducted,
     current_credits |-> current, transaction_type |-> type]

ReservedCredits(u, amount, plan) ==
    [kind |-> "res", user_id |-> u, subscription_plan_id |-> plan, credits |-> amount,
     committed |-> FALSE, released |-> FALSE]

CreditExpiryRecord(u, plan, amount, expires_at) ==
    [kind |-> "exp", user_id |-> u, subscription_plan_id |-> plan, credits |-> amount,
     remaining_credits |-> amount, expires_at |-> expires_at, expired |-> FALSE]

UserCreditInfo(balance, reserved) ==
    [kind |-> "dict", balance |-> balance, reserved |-> reserved,
     available |-> balance - reserved]

\* ------------------------------------------------------------ persistence port
RECURSIVE LastTxOf(_, _)
LastTxOf(s, u) ==
    IF s = <<>> THEN 0
    ELSE IF s[Len(s)].user_id = u THEN s[Len(s)].current_credits
    ELSE LastTxOf(SubSeq(s, 1, Len(s) - 1), u)

mongo_get_user_credits(w, u) == LastTxOf(w.txs, u)

memory_get_user_credits(w, u) ==
    IF w.users[u] # -1 THEN w.users[u] ELSE LastTxOf(w.txs, u)

db_get_user_credits(w, u) ==
    IF w.backend = "mongo" THEN mongo_get_user_credits(w, u)
    ELSE memory_get_user_credits(w, u)

RECURSIVE SumOver(_, _)
SumOver(S, f) ==
    IF S = {} THEN 0
    ELSE LET x == CHOOSE y \in S : TRUE IN f[x] + SumOver(S \ {x}, f)

IsActive(r) == r.kind = "res" /\ ~r.committed /\ ~r.released

\* Variant: the query does not filter by user.
mongo_get_reserved_credits_for_user_unfiltered(w, u) ==
    LET hit == {i \in ResIds : /\ w.reserved_docs[i].kind = "res"
                               /\ w.reserved_docs[i].committed = FALSE
                               /\ w.reserved_docs[i].released = FALSE}
    IN SumOver(hit, [i \in ResIds |-> w.reserved_docs[i].credits])

mongo_get_reserved_credits_for_user(w, u) ==
    LET hit == {i \in ResIds : /\ w.reserved_docs[i].kind = "res"
                               /\ w.reserved_docs[i].user_id = u
                               /\ w.reserved_docs[i].committed = FALSE
                               /\ w.reserved_docs[i].released = FALSE}
    IN SumOver(hit, [i \in ResIds |-> w.reserved_docs[i].credits])

RECURSIVE SumActiveRefs(_, _, _)
SumActiveRefs(w, refs, u) ==
    IF refs = <<>> THEN 0
    ELSE LET r == w.objs[Head(refs)]
         IN (IF r.user_id = u /\ ~r.committed /\ ~r.released THEN r.credits ELSE 0)
            + SumActiveRefs(w, Tail(refs), u)

memory_get_reserved_credits_for_user(w, u) == SumActiveRefs(w, w.reserved_list, u)

db_get_reserved_credits_for_user(w, u) ==
    IF w.backend = "mongo" THEN mongo_get_reserved_credits_for_user(w, u)
    ELSE memory_get_reserved_credits_for_user(w, u)

db_get_user_credits_info(w, u) ==
    UserCreditInfo(db_get_user_credits(w, u), db_get_reserved_credits_for_user(w, u))

db_add_transaction(w, tx) == [w EXCEPT !.txs = Append(@, tx)]

FreeIds(f, S) == {i \in S : f[i].kind = "none"}
NextId(f, S) == CHOOSE i \in FreeIds(f, S) : \A j \in FreeIds(f, S) : i <= j

\* A record that has no id yet is inserted under a fresh one.
db_insert_credit_expiry_record(w, rec) ==
    LET id == NextId(w.expiry, ExpIds)
    IN [w EXCEPT !.expiry[id] = rec,
                 !.expiry_list = IF w.backend = "memory" THEN Append(@, id) ELSE @]

\* A record that already has an id: insert_one on MongoDB (duplicate key),
\* a second reference appended to the list in memory.
db_readd_credit_expiry_record(w, id, rec) ==
    IF w.backend = "mongo"
    THEN [ok |-> FALSE, w |-> w]
    ELSE [ok |-> TRUE, w |-> [w EXCEPT !.expiry[id] = rec, !.expiry_list = Append(@, id)]]

\* add_reserved_credits of the caller's object id: replace_one(upsert) on
\* MongoDB, another reference appended to the list in memory.
db_add_reserved_credits(w, id) ==
    IF w.backend = "mongo"
    THEN [w EXCEPT !.reserved_docs[id] = w.objs[id]]
    ELSE [w EXCEPT !.reserved_list = Append(@, id)]

db_add_ledger_entry(w, entry) == [w EXCEPT !.ledger = Append(@, entry)]

\* ------------------------------------------------------------ audit sink
LedgerEntry(event_type, u) == [event_type |-> event_type, user_id |-> u]

ledger_log(w, event_type, u) == db_add_ledger_entry(w, LedgerEntry(event_type, u))

log_transaction(w, u) == ledger_log(w, "transaction", u)

\* Variant: the error is raised without an audit entry.
log_error_dropped(w, u) == w


log_error(w, u) == ledger_log(w, "error", u)

\* ------------------------------------------------------------ cache port
cache_get(w, key) ==
    LET e == w.cache[key]
    IN IF ~e.present THEN [w |-> w, value |-> NoValue]
       ELSE IF e.expires_at # NoTtl /\ e.expires_at < w.now
            THEN [w |-> [w EXCEPT !.cache[key] = NoEntry], value |-> NoValue]
            ELSE [w |-> w, value |-> e.value]

cache_set(w, key, value, ttl_seconds) ==
    [w EXCEPT !.cache[key] =
        [present |-> TRUE, value |-> value,
         expires_at |-> IF ttl_seconds # NoTtl THEN w.now + ttl_seconds ELSE NoTtl]]

cache_delete(w, key) == [w EXCEPT !.cache[key] = NoEntry]

IntValue(n) == [kind |-> "int", n |-> n]

\* UserCreditInfo.model_validate accepts a dict that carries the three fields.
model_validate_ok(v) == v.kind = "dict"

\* ------------------------------------------------------------ CreditService
IsDict(v) == v.kind = "dict" \/ v.kind = "baddict"

Result(w, outcome, ret, rid) == [w |-> w, outcome |-> outcome, ret |-> ret, rid |-> rid]

update_credit_info_cache(w, u, balance_delta, reserved_delta) ==
    IF ~w.cache_on THEN w
    ELSE LET g == cache_get(w, InfoKey(u))
         IN IF IsDict(g.value)
            THEN IF model_validate_ok(g.value)
                 THEN cache_set(g.w, InfoKey(u),
                                UserCreditInfo(g.value.balance + balance_delta,
                                               g.value.reserved + reserved_delta),
                                CacheTtlSeconds)
                 ELSE cache_delete(g.w, InfoKey(u))
            ELSE g.w

set_balance_cache(w, u, new_balance) ==
    IF w.cache_on THEN cache_set(w, BalanceKey(u), IntValue(new_balance), NoTtl) ELSE w

\* Variant: the amount is not validated.
add_credits_unvalidated(w, u, amount, plan) ==
    LET current == db_get_user_credits(w, u)
        new_balance == current + amount
        w1 == db_add_transaction(w, Transaction(u, amount, 0, new_balance, "add"))
        w2 == IF plan # "none"
              THEN db_insert_credit_expiry_record(
                       w1, CreditExpiryRecord(u, plan, amount, w1.now + ExpiryHorizon))
              ELSE w1
        w3 == log_transaction(w2, u)
        w4 == update_credit_info_cache(set_balance_cache(w3, u, new_balance),
                                       u, amount, 0)
    IN Result(w4, "ok", new_balance, 0)

add_credits(w, u, amount, plan) ==
    IF amount <= 0 THEN Result(w, "InvalidAmount", 0, 0)
    ELSE LET current == db_get_user_credits(w, u)
             new_balance == current + amount
             w1 == db_add_transaction(w, Transaction(u, amount, 0, new_balance, "add"))
             w2 == IF plan # "none"
                   THEN db_insert_credit_expiry_record(
                            w1, CreditExpiryRecord(u, plan, amount, w1.now + ExpiryHorizon))
                   ELSE w1
             w3 == log_transaction(w2, u)
             w4 == update_credit_info_cache(set_balance_cache(w3, u, new_balance),
                                            u, amount, 0)
         IN Result(w4, "ok", new_balance, 0)

deduct_credits_internal(w, u, amount, current_balance) ==
    LET new_balance == current_balance - amount
        w1 == db_add_transaction(w, Transaction(u, 0, amount, new_balance, "deduct"))
        w2 == log_transaction(w1, u)
        w3 == update_credit_info_cache(set_balance_cache(w2, u, new_balance),
                                       u, -amount, 0)
    IN Result(w3, "ok", new_balance, 0)

\* Variant: the admission check reads the raw balance, not the available credit.
deduct_credits_on_balance(w, u, amount) ==
    IF amount <= 0 THEN Result(w, "InvalidAmount", 0, 0)
    ELSE LET current == db_get_user_credits(w, u)
         IN IF current < amount
            THEN Result(log_error(w, u), "InsufficientCredits", 0, 0)
            ELSE deduct_credits_internal(w, u, amount, current)

\* Variant: the admission check reads the cached aggregate when there is one.
deduct_credits_from_cache(w, u, amount) ==
    IF amount <= 0 THEN Result(w, "InvalidAmount", 0, 0)
    ELSE LET g == cache_get(w, InfoKey(u))
             credit_info == IF w.cache_on /\ IsDict(g.value) /\ model_validate_ok(g.value)
                            THEN g.value ELSE db_get_user_credits_info(w, u)
         IN IF credit_info.available < amount
            THEN Result(log_error(w, u), "InsufficientCredits", 0, 0)
            ELSE deduct_credits_internal(w, u, amount, credit_info.balance)

deduct_credits(w, u, amount) ==
    IF amount <= 0 THEN Result(w, "InvalidAmount", 0, 0)
    ELSE LET credit_info == db_get_user_credits_info(w, u)
         IN IF credit_info.available < amount
            THEN Result(log_error(w, u), "InsufficientCredits", 0, 0)
            ELSE deduct_credits_internal(w, u, amount, credit_info.balance)

\* Variant: the post-hoc deduction never takes the balance below 0.
deduct_credits_after_service_clamped(w, u, amount) ==
    IF amount <= 0 THEN Result(w, "InvalidAmount", 0, 0)
    ELSE LET credit_info == db_get_user_credits_info(w, u)
         IN deduct_credits_internal(w, u, IF amount > credit_info.balance
                                          THEN Max(credit_info.balance, 0) ELSE amount,
                                    credit_info.balance)

deduct_credits_after_service(w, u, amount) ==
    IF amount <= 0 THEN Result(w, "InvalidAmount", 0, 0)
    ELSE LET credit_info == db_get_user_credits_info(w, u)
         IN deduct_credits_internal(w, u, amount, credit_info.balance)

\* Variant: the admission check reads the raw balance, not the available credit.
reserve_credits_on_balance(w, u, amount, plan) ==
    IF amount <= 0 THEN Result(w, "InvalidAmount", 0, 0)
    ELSE LET current == db_get_user_credits(w, u)
         IN IF current < amount \/ FreeIds(w.objs, ResIds) = {}
            THEN Result(log_error(w, u), "InsufficientCredits", 0, 0)
            ELSE LET id == NextId(w.objs, ResIds)
                     w1 == [w EXCEPT !.objs[id] = ReservedCredits(u, amount, plan)]
                     w2 == db_add_reserved_credits(w1, id)
                     w3 == log_transaction(w2, u)
                     w4 == update_credit_info_cache(w3, u, 0, amount)
                 IN Result(w4, "ok", amount, id)

reserve_credits(w, u, amount, plan) ==
    IF amount <= 0 THEN Result(w, "InvalidAmount", 0, 0)
    ELSE LET credit_info == db_get_user_credits_info(w, u)
         IN IF credit_info.available < amount
            THEN Result(log_error(w, u), "InsufficientCredits", 0, 0)
            ELSE LET id == NextId(w.objs, ResIds)
                     w1 == [w EXCEPT !.objs[id] = ReservedCredits(u, amount, plan)]
                     w2 == db_add_reserved_credits(w1, id)
                     w3 == log_transaction(w2, u)
                     w4 == update_credit_info_cache(w3, u, 0, amount)
                 IN Result(w4, "ok", amount, id)

\* Variant: the reservation is not marked released.
unreserve_credits_unreleased(w, id) ==
    LET u == w.objs[id].user_id
        w2 == db_add_reserved_credits(w, id)
        w3 == log_transaction(w2, u)
        w4 == update_credit_info_cache(w3, u, 0, -(w.objs[id].credits))
    IN Result(w4, "ok", 0, id)

unreserve_credits(w, id) ==
    LET u == w.objs[id].user_id
        w1 == [w EXCEPT !.objs[id].released = TRUE]
        w2 == db_add_reserved_credits(w1, id)
        w3 == log_transaction(w2, u)
        w4 == update_credit_info_cache(w3, u, 0, -(w.objs[id].credits))
    IN Result(w4, "ok", 0, id)

\* Variant: the reservation is not marked committed.
commit_reserved_credits_unmarked(w, id) ==
    LET u == w.objs[id].user_id
        credits == w.objs[id].credits
        current == db_get_user_credits(w, u)
    IN IF current < credits
       THEN Result(log_error(w, u), "InsufficientCredits", 0, id)
       ELSE LET new_balance == current - credits
                w2 == db_add_reserved_credits(w, id)
                w3 == db_add_transaction(
                          w2, Transaction(u, 0, credits, new_balance, "commit_reserved"))
                w4 == log_transaction(w3, u)
                w5 == update_credit_info_cache(set_balance_cache(w4, u, new_balance),
                                               u, -credits, -credits)
            IN Result(w5, "ok", new_balance, id)

\* Variant: the admission check reads the available credit, not the raw balance.
commit_reserved_credits_on_available(w, id) ==
    LET u == w.objs[id].user_id
        credits == w.objs[id].credits
        current == db_get_user_credits(w, u)
    IN IF db_get_user_credits_info(w, u).available < credits
       THEN Result(log_error(w, u), "InsufficientCredits", 0, id)
       ELSE LET new_balance == current - credits
                w1 == [w EXCEPT !.objs[id].committed = TRUE]
                w2 == db_add_reserved_credits(w1, id)
                w3 == db_add_transaction(
                          w2, Transaction(u, 0, credits, new_balance, "commit_reserved"))
                w4 == log_transaction(w3, u)
                w5 == update_credit_info_cache(set_balance_cache(w4, u, new_balance),
                                               u, -credits, -credits)
            IN Result(w5, "ok", new_balance, id)

commit_reserved_credits(w, id) ==
    LET u == w.objs[id].user_id
        credits == w.objs[id].credits
        current == db_get_user_credits(w, u)
    IN IF current < credits
       THEN Result(log_error(w, u), "InsufficientCredits", 0, id)
       ELSE LET new_balance == current - credits
                w1 == [w EXCEPT !.objs[id].committed = TRUE]
                w2 == db_add_reserved_credits(w1, id)
                w3 == db_add_transaction(
                          w2, Transaction(u, 0, credits, new_balance, "commit_reserved"))
                w4 == log_transaction(w3, u)
                w5 == update_credit_info_cache(set_balance_cache(w4, u, new_balance),
                                               u, -credits, -credits)
            IN Result(w5, "ok", new_balance, id)

\* get_credit_expiry_history: the user's records, by expires_at on MongoDB,
\* in append order (references) in memory.
RECURSIVE SortedByExpiry(_, _)
SortedByExpiry(w, S) ==
    IF S = {} THEN <<>>
    ELSE LET m == CHOOSE i \in S :
                      \A j \in S : \/ w.expiry[i].expires_at < w.expiry[j].expires_at
                                   \/ (w.expiry[i].expires_at = w.expiry[j].expires_at /\ i <= j)
         IN <<m>> \o SortedByExpiry(w, S \ {m})

db_get_credit_expiry_history(w, u) ==
    IF w.backend = "mongo"
    THEN SortedByExpiry(w, {i \in ExpIds : w.expiry[i].kind = "exp" /\ w.expiry[i].user_id = u})
    ELSE SelectSeq(w.expiry_list, LAMBDA i : w.expiry[i].user_id = u)

\* The loop of expire_credits over the fetched records; a failing write ends
\* the call with the storage error.
RECURSIVE ExpireLoop(_, _, _, _)
ExpireLoop(w, records, as_of, expired_total) ==
    IF records = <<>> THEN [ok |-> TRUE, w |-> w, expired_total |-> expired_total]
    ELSE LET id == Head(records)
             record == w.expiry[id]
         IN IF record.expired \/ record.expires_at > as_of
            THEN ExpireLoop(w, Tail(records), as_of, expired_total)
            ELSE LET swept == [record EXCEPT !.remaining_credits = 0, !.expired = TRUE]
                     put == db_readd_credit_expiry_record(w, id, swept)
                 IN IF ~put.ok THEN [ok |-> FALSE, w |-> w, expired_total |-> 0]
                    ELSE ExpireLoop(put.w, Tail(records), as_of,
                                    expired_total + record.remaining_credits)

\* Variant: the new balance is not clamped at 0.
expire_credits_unclamped(w, u, as_of) ==
    LET swept == ExpireLoop(w, db_get_credit_expiry_history(w, u), as_of, 0)
    IN IF ~swept.ok THEN Result(w, "DuplicateKeyError", 0, 0)
       ELSE IF swept.expired_total > 0
            THEN LET current == db_get_user_credits(swept.w, u)
                     new_balance == current - swept.expired_total
                     w1 == db_add_transaction(
                               swept.w,
                               Transaction(u, 0, swept.expired_total, new_balance, "expire"))
                     w2 == log_transaction(w1, u)
                     w3 == update_credit_info_cache(
                               set_balance_cache(w2, u, new_balance),
                               u, -(swept.expired_total), 0)
                 IN Result(w3, "ok", swept.expired_total, 0)
            ELSE Result(swept.w, "ok", 0, 0)

expire_credits(w, u, as_of) ==
    LET swept == ExpireLoop(w, db_get_credit_expiry_history(w, u), as_of, 0)
    IN IF ~swept.ok THEN Result(w, "DuplicateKeyError", 0, 0)
       ELSE IF swept.expired_total > 0
            THEN LET current == db_get_user_credits(swept.w, u)
                     new_balance == Max(current - swept.expired_total, 0)
                     w1 == db_add_transaction(
                               swept.w,
                               Transaction(u, 0, swept.expired_total, new_balance, "expire"))
                     w2 == log_transaction(w1, u)
                     w3 == update_credit_info_cache(
                               set_balance_cache(w2, u, new_balance),
                               u, -(swept.expired_total), 0)
                 IN Result(w3, "ok", swept.expired_total, 0)
            ELSE Result(swept.w, "ok", 0, 0)

\* Variant: the recomputed aggregate is cached without a TTL.
get_user_credits_info_no_ttl(w, u) ==
    LET g == IF w.cache_on THEN cache_get(w, InfoKey(u)) ELSE [w |-> w, value |-> NoValue]
    IN IF w.cache_on /\ IsDict(g.value) /\ model_validate_ok(g.value)
       THEN [w |-> g.w, info |-> g.value]
       ELSE LET w1 == IF w.cache_on /\ IsDict(g.value)
                      THEN cache_delete(g.w, InfoKey(u)) ELSE g.w
                info == db_get_user_credits_info(w1, u)
                w2 == IF w1.cache_on THEN cache_set(w1, InfoKey(u), info, NoTtl)
                      ELSE w1
            IN [w |-> w2, info |-> info]

get_user_credits_info(w, u) ==
    LET g == IF w.cache_on THEN cache_get(w, InfoKey(u)) ELSE [w |-> w, value |-> NoValue]
    IN IF w.cache_on /\ IsDict(g.value) /\ model_validate_ok(g.value)
       THEN [w |-> g.w, info |-> g.value]
       ELSE LET w1 == IF w.cache_on /\ IsDict(g.value)
                      THEN cache_delete(g.w, InfoKey(u)) ELSE g.w
                info == db_get_user_credits_info(w1, u)
                w2 == IF w1.cache_on THEN cache_set(w1, InfoKey(u), info, CacheTtlSeconds)
                      ELSE w1
            IN [w |-> w2, info |-> info]

\* ------------------------------------------------------------ calls
Call(op, u, amount, rid, r) ==
    [op |-> op, user_id |-> u, amount |-> amount, rid |-> rid,
     outcome |-> r.outcome, ret |-> r.ret, info |-> NoValue, cached |-> "none"]

NoCall == [op |-> "none", user_id |-> "", amount |-> 0, rid |-> 0,
           outcome |-> "ok", ret |-> 0, info |-> NoValue, cached |-> "none"]

Env(op) == [NoCall EXCEPT !.op = op]

Balance(u) == db_get_user_credits(W, u)
Reserved(u) == db_get_reserved_credits_for_user(W, u)
Available(u) == Balance(u) - Reserved(u)
HeldIds == {i \in ResIds : objs[i].kind = "res"}
Room == Len(ledger) < MaxLedger

Task(op, u, amount) ==
    [op |-> op, user_id |-> u, amount |-> amount, got_balance |-> FALSE,
     got_reserved |-> FALSE, balance |-> 0, reserved |-> 0, rid |-> 0,
     cached |-> NoValue, outcome |-> "ok", ret |-> 0]

NoTask == Task("none", "", 0)

Init ==
    /\ backend \in Backends
    /\ cache_on \in BOOLEAN
    /\ now = 0
    /\ users = [u \in AllUsers |-> -1]
    /\ txs = <<>>
    /\ expiry = [i \in ExpIds |-> NoObj]
    /\ expiry_list = <<>>
    /\ objs = [i \in ResIds |-> NoObj]
    /\ reserved_docs = [i \in ResIds |-> NoObj]
    /\ reserved_list = <<>>
    /\ ledger = <<>>
    /\ cache = [k \in CacheKeys |-> NoEntry]
    /\ last = NoCall
    /\ pc = [p \in Procs |-> "idle"]
    /\ loc = [p \in Procs |-> NoTask]
    /\ populated_at = [u \in AllUsers |-> -1]

Add(u, amount, plan) ==
    /\ Room
    /\ plan # "none" => FreeIds(expiry, ExpIds) # {}
    /\ LET r == add_credits(W, u, amount, plan)
       IN Store(r.w) /\ last' = [Call("add", u, amount, 0, r)
                                   EXCEPT !.info = [kind |-> "plan", plan |-> plan]]
    /\ UNCHANGED <<pc, loc>>

Deduct(u, amount) ==
    /\ Room
    /\ LET r == deduct_credits(W, u, amount)
       IN Store(r.w) /\ last' = Call("deduct", u, amount, 0, r)
    /\ UNCHANGED <<pc, loc>>

DeductAfterService(u, amount) ==
    /\ Room
    /\ LET r == deduct_credits_after_service(W, u, amount)
       IN Store(r.w) /\ last' = Call("deduct_after_service", u, amount, 0, r)
    /\ UNCHANGED <<pc, loc>>

Reserve(u, amount) ==
    /\ Room
    /\ Available(u) >= amount => FreeIds(objs, ResIds) # {}
    /\ LET r == reserve_credits(W, u, amount, "none")
       IN Store(r.w) /\ last' = Call("reserve", u, amount, r.rid, r)
    /\ UNCHANGED <<pc, loc>>

Unreserve(id) ==
    /\ Room
    /\ id \in HeldIds
    /\ LET r == unreserve_credits(W, id)
       IN Store(r.w) /\ last' = Call("unreserve", objs[id].user_id, objs[id].credits, id, r)
    /\ UNCHANGED <<pc, loc>>

Commit(id) ==
    /\ Room
    /\ id \in HeldIds
    /\ LET r == commit_reserved_credits(W, id)
       IN Store(r.w) /\ last' = Call("commit", objs[id].user_id, objs[id].credits, id, r)
    /\ UNCHANGED <<pc, loc>>

Expire(u, as_of) ==
    /\ Room
    /\ LET r == expire_credits(W, u, as_of)
       IN Store(r.w) /\ last' = [Call("expire", u, 0, 0, r)
                                   EXCEPT !.info = [kind |-> "as_of", t |-> as_of]]
    /\ UNCHANGED <<pc, loc>>

\* What a read of the user's info key gives now: a payload kind, or that the
\* entry is absent or has outlived its TTL.
CachedKind(u) ==
    IF ~cache_on THEN "none"
    ELSE IF ~cache[InfoKey(u)].present THEN "absent"
    ELSE IF cache_get(W, InfoKey(u)).value = NoValue THEN "expired"
    ELSE cache_get(W, InfoKey(u)).value.kind

GetCreditInfo(u) ==
    /\ LET g == get_user_credits_info(W, u)
       IN Store(g.w) /\ last' = [Env("get_info") EXCEPT !.user_id = u, !.info = g.info,
                                                       !.cached = CachedKind(u)]
    /\ UNCHANGED <<pc, loc>>

Tick ==
    /\ now < MaxTicks * TickSeconds
    /\ now' = now + TickSeconds
    /\ last' = Env("tick")
    /\ UNCHANGED <<backend, cache_on, users, txs, expiry, expiry_list, objs,
                   reserved_docs, reserved_list, ledger, cache, pc, loc, populated_at>>

AsOfs == {now, now + ExpiryHorizon}

Next ==
    \/ \E u \in Users, a \in Amounts, p \in Plans : Add(u, a, p)
    \/ \E u \in Users, a \in DeductAmounts : Deduct(u, a)
    \/ \E u \in Users, a \in ForcedAmounts : DeductAfterService(u, a)
    \/ \E u \in Users, a \in Amounts : Reserve(u, a)
    \/ \E id \in ResIds : Unreserve(id)
    \/ \E id \in ResIds : Commit(id)
    \/ \E u \in Users, t \in AsOfs : Expire(u, t)
    \/ \E u \in Users : GetCreditInfo(u)
    \/ Tick

Spec == Init /\ [][Next]_vars

\* The calls add, deduct, reserve, commit and unreserve alone, issued one after
\* the other, with getCreditInfo reads in between.
NextCore ==
    \/ \E u \in Users, a \in Amounts, p \in Plans : Add(u, a, p)
    \/ \E u \in Users, a \in DeductAmounts : Deduct(u, a)
    \/ \E u \in Users, a \in Amounts : Reserve(u, a)
    \/ \E id \in ResIds : Unreserve(id)
    \/ \E id \in ResIds : Commit(id)
    \/ \E u \in Users : GetCreditInfo(u)
    \/ Tick

SpecCore == Init /\ [][NextCore]_vars

\* Every call but deductAfterService.
NextAdmitted ==
    \/ \E u \in Users, a \in Amounts, p \in Plans : Add(u, a, p)
    \/ \E u \in Users, a \in DeductAmounts : Deduct(u, a)
    \/ \E u \in Users, a \in Amounts : Reserve(u, a)
    \/ \E id \in ResIds : Unreserve(id)
    \/ \E id \in ResIds : Commit(id)
    \/ \E u \in Users, t \in AsOfs : Expire(u, t)
    \/ \E u \in Users : GetCreditInfo(u)
    \/ Tick

SpecAdmitted == Init /\ [][NextAdmitted]_vars

\* ------------------------------------------------------------ the cache as a shared store
\* The cache is a key/value store behind AsyncCacheBackend that the service
\* does not own: another client may put a payload under a key (a dict that
\* lacks the fields of UserCreditInfo, a value that is no dict, an aggregate
\* that is out of date) and entries may be dropped at any time.
ForeignPayloads == {[kind |-> "baddict"], [kind |-> "str"], UserCreditInfo(50, 0)}

CacheOverwrite(u, v) ==
    /\ cache_on
    /\ Store(cache_set(W, InfoKey(u), v, CacheTtlSeconds))
    /\ last' = [Env("cache_overwrite") EXCEPT !.user_id = u]
    /\ UNCHANGED <<pc, loc>>

CacheEvict(key) ==
    /\ cache_on
    /\ cache[key].present
    /\ Store(cache_delete(W, key))
    /\ last' = Env("cache_evict")
    /\ UNCHANGED <<pc, loc>>

\* The service never reads the balance key, so only the info key is disturbed.
NextCache ==
    \/ \E u \in Users, a \in Amounts : Add(u, a, "none")
    \/ \E u \in Users, a \in DeductAmounts : Deduct(u, a)
    \/ \E u \in Users, a \in ForcedAmounts : DeductAfterService(u, a)
    \/ \E u \in Users, a \in Amounts : Reserve(u, a)
    \/ \E id \in ResIds : Unreserve(id)
    \/ \E id \in ResIds : Commit(id)
    \/ \E u \in Users : GetCreditInfo(u)
    \/ Tick
    \/ \E u \in Users, v \in ForeignPayloads : CacheOverwrite(u, v)
    \/ \E u \in Users : CacheEvict(InfoKey(u))

SpecCache == Init /\ [][NextCache]_vars

\* ------------------------------------------------------------ the age of a cached aggregate
\* Time in steps of a little more than half the TTL, so that an entry can be
\* written again before it runs out.
ElapseSeconds == CacheTtlSeconds \div 2 + 1

Elapse ==
    /\ now < MaxElapse * ElapseSeconds
    /\ now' = now + ElapseSeconds
    /\ last' = Env("elapse")
    /\ UNCHANGED <<backend, cache_on, users, txs, expiry, expiry_list, objs,
                   reserved_docs, reserved_list, ledger, cache, pc, loc, populated_at>>

\* getCreditInfo, with the time noted at which it fills the info key from
\* persistence.
GetCreditInfoTimed(u) ==
    /\ LET g == get_user_credits_info(W, u)
       IN /\ Store([g.w EXCEPT !.populated_at[u] =
                       IF cache_on /\ CachedKind(u) # "dict" THEN now ELSE @])
          /\ last' = [Env("get_info") EXCEPT !.user_id = u, !.info = g.info,
                                             !.cached = CachedKind(u)]
    /\ UNCHANGED <<pc, loc>>

NextHeal ==
    \/ \E u \in Users, a \in Amounts : Add(u, a, "none")
    \/ \E u \in Users, a \in DeductAmounts : Deduct(u, a)
    \/ \E u \in Users, a \in Amounts : Reserve(u, a)
    \/ \E id \in ResIds : Unreserve(id)
    \/ \E u \in Users : GetCreditInfoTimed(u)
    \/ Elapse

SpecHeal == Init /\ [][NextHeal]_vars

\* ------------------------------------------------------------ a port call that fails
\* commit_reserved_credits when one of its awaited calls raises: the calls
\* before it have taken effect, the transaction scope rolls nothing back, and
\* the error reaches the caller. The committed flag is set on the caller's
\* object before add_reserved_credits is awaited.
FaultPoints == {"add_reserved_credits", "add_transaction", "log_transaction",
                "cache_set", "update_credit_info_cache"}

commit_reserved_credits_failing(w, id, fault) ==
    LET u == w.objs[id].user_id
        credits == w.objs[id].credits
        current == db_get_user_credits(w, u)
    IN IF current < credits
       THEN Result(log_error(w, u), "InsufficientCredits", 0, id)
       ELSE LET new_balance == current - credits
                w1 == [w EXCEPT !.objs[id].committed = TRUE]
                w2 == db_add_reserved_credits(w1, id)
                w3 == db_add_transaction(
                          w2, Transaction(u, 0, credits, new_balance, "commit_reserved"))
                w4 == log_transaction(w3, u)
                w5 == set_balance_cache(w4, u, new_balance)
                w6 == update_credit_info_cache(w5, u, -credits, -credits)
            IN IF fault = "add_reserved_credits" THEN Result(w1, "StorageError", 0, id)
               ELSE IF fault = "add_transaction" THEN Result(w2, "StorageError", 0, id)
               ELSE IF fault = "log_transaction" THEN Result(w3, "StorageError", 0, id)
               ELSE IF fault = "cache_set" /\ w.cache_on
                    THEN Result(w4, "StorageError", 0, id)
               ELSE IF fault = "update_credit_info_cache" /\ w.cache_on
                    THEN Result(w5, "StorageError", 0, id)
               ELSE Result(w6, "ok", new_balance, id)

CommitFailing(id, fault) ==
    /\ Room
    /\ id \in HeldIds
    /\ IsActive(objs[id])
    /\ LET r == commit_reserved_credits_failing(W, id, fault)
       IN Store(r.w) /\ last' = [Call("commit", objs[id].user_id, objs[id].credits, id, r)
                                   EXCEPT !.info = [kind |-> "fault", at |-> fault]]
    /\ UNCHANGED <<pc, loc>>

NextFault ==
    \/ \E u \in Users, a \in Amounts : Add(u, a, "none")
    \/ \E u \in Users, a \in Amounts : Reserve(u, a)
    \/ \E id \in ResIds : Commit(id)
    \/ \E id \in ResIds, f \in FaultPoints : CommitFailing(id, f)
    \/ \E u \in Users : GetCreditInfo(u)

SpecFault == Init /\ [][NextFault]_vars

\* ------------------------------------------------------------ an audit sink that fails
\* LedgerLogger._log awaits add_ledger_entry first and then appends a line to
\* the log file; only an OSError of the file write is caught there.
SinkModes == {"ok", "db_fails", "file_fails"}

ledger_log_sink(w, event_type, u, mode) ==
    IF mode = "db_fails" THEN [ok |-> FALSE, w |-> w]
    ELSE [ok |-> TRUE, w |-> db_add_ledger_entry(w, LedgerEntry(event_type, u))]

\* add_credits with the sink in the given mode: an exception of
\* log_transaction leaves the call before the cache is updated.
add_credits_sink(w, u, amount, plan, mode) ==
    IF amount <= 0 THEN Result(w, "InvalidAmount", 0, 0)
    ELSE LET current == db_get_user_credits(w, u)
             new_balance == current + amount
             w1 == db_add_transaction(w, Transaction(u, amount, 0, new_balance, "add"))
             w2 == IF plan # "none"
                   THEN db_insert_credit_expiry_record(
                            w1, CreditExpiryRecord(u, plan, amount, w1.now + ExpiryHorizon))
                   ELSE w1
             logged == ledger_log_sink(w2, "transaction", u, mode)
             w4 == update_credit_info_cache(set_balance_cache(logged.w, u, new_balance),
                                            u, amount, 0)
         IN IF ~logged.ok THEN Result(logged.w, "StorageError", 0, 0)
            ELSE Result(w4, "ok", new_balance, 0)

AddSink(u, amount, plan, mode) ==
    /\ Room
    /\ Len(txs) < MaxLedger
    /\ plan # "none" => FreeIds(expiry, ExpIds) # {}
    /\ LET r == add_credits_sink(W, u, amount, plan, mode)
       IN Store(r.w) /\ last' = [Call("add", u, amount, 0, r)
                                   EXCEPT !.info = [kind |-> "sink", mode |-> mode]]
    /\ UNCHANGED <<pc, loc>>

NextSink ==
    \/ \E u \in Users, a \in Amounts, p \in Plans, m \in SinkModes : AddSink(u, a, p, m)
    \/ \E u \in Users : GetCreditInfo(u)

SpecSink == Init /\ [][NextSink]_vars

\* ------------------------------------------------------------ amounts a caller may pass
\* The amount is an int the caller chooses: negative, zero or positive.
AnyAmounts == {-1, 0, 20}

NextAmounts ==
    \/ \E u \in Users, a \in AnyAmounts, p \in Plans : Add(u, a, p)
    \/ \E u \in Users, a \in AnyAmounts : Deduct(u, a)
    \/ \E u \in Users, a \in AnyAmounts : DeductAfterService(u, a)
    \/ \E u \in Users, a \in AnyAmounts : Reserve(u, a)
    \/ \E u \in Users : GetCreditInfo(u)

SpecAmounts == Init /\ [][NextAmounts]_vars

\* ------------------------------------------------------------ a reservation persistence does not know
\* unreserve_credits and commit_reserved_credits take a ReservedCredits object
\* from the caller. Here the caller passes one that reserve_credits never
\* returned: it is in no collection when the call starts.
UnreserveUnknown(u, amount) ==
    /\ Room
    /\ FreeIds(objs, ResIds) # {}
    /\ LET id == NextId(objs, ResIds)
           r == unreserve_credits([W EXCEPT !.objs[id] = ReservedCredits(u, amount, "none")], id)
       IN Store(r.w) /\ last' = [Call("unreserve", u, amount, id, r)
                                   EXCEPT !.info = [kind |-> "unknown"]]
    /\ UNCHANGED <<pc, loc>>

CommitUnknown(u, amount) ==
    /\ Room
    /\ FreeIds(objs, ResIds) # {}
    /\ LET id == NextId(objs, ResIds)
           r == commit_reserved_credits([W EXCEPT !.objs[id] = ReservedCredits(u, amount, "none")], id)
       IN Store(r.w) /\ last' = [Call("commit", u, amount, id, r)
                                   EXCEPT !.info = [kind |-> "unknown"]]
    /\ UNCHANGED <<pc, loc>>

NextUnknown ==
    \/ \E u \in Users, a \in Amounts : Add(u, a, "none")
    \/ \E u \in Users, a \in Amounts : Reserve(u, a)
    \/ \E u \in Users, a \in Amounts : UnreserveUnknown(u, a)
    \/ \E u \in Users, a \in Amounts : CommitUnknown(u, a)
    \/ \E u \in Users : GetCreditInfo(u)

SpecUnknown == Init /\ [][NextUnknown]_vars

\* ------------------------------------------------------------ the reservation scenario of the tests
\* test_no_overspend_when_reserving: one user, an add, then reserves of 50, 55
\* and 10 and the release of a reservation, in any order, up to ScenarioLen
\* audit entries.
ScenarioAdds == {60, 100}
ScenarioReserves == {10, 50, 55}
ScenarioRoom == Len(ledger) < ScenarioLen

ScenarioAdd(u, amount) ==
    /\ ScenarioRoom
    /\ txs = <<>>
    /\ LET r == add_credits(W, u, amount, "none")
       IN Store(r.w) /\ last' = Call("add", u, amount, 0, r)
    /\ UNCHANGED <<pc, loc>>

ScenarioReserve(u, amount) ==
    /\ ScenarioRoom
    /\ Available(u) >= amount => FreeIds(objs, ResIds) # {}
    /\ LET r == reserve_credits(W, u, amount, "none")
       IN Store(r.w) /\ last' = Call("reserve", u, amount, r.rid, r)
    /\ UNCHANGED <<pc, loc>>

ScenarioUnreserve(id) ==
    /\ ScenarioRoom
    /\ id \in HeldIds
    /\ IsActive(objs[id])
    /\ LET r == unreserve_credits(W, id)
       IN Store(r.w) /\ last' = Call("unreserve", objs[id].user_id, objs[id].credits, id, r)
    /\ UNCHANGED <<pc, loc>>

NextScenario ==
    \/ \E u \in Users, a \in ScenarioAdds : ScenarioAdd(u, a)
    \/ \E u \in Users, a \in ScenarioReserves : ScenarioReserve(u, a)
    \/ \E id \in ResIds : ScenarioUnreserve(id)
    \/ \E u \in Users : GetCreditInfo(u)

SpecScenario == Init /\ [][NextScenario]_vars

\* ------------------------------------------------------------ subscription allocation
\* ExpirationService.allocate_subscription_credits: add_credits with the
\* plan's credit_limit and id, then an audit entry of its own. A plan that has
\* not been stored has no id.
SubscriptionPlans == {[id |-> "p1", credit_limit |-> 50], [id |-> "none", credit_limit |-> 20]}

\* Variant: the plan id is not handed to add_credits.
allocate_subscription_credits_no_plan(w, u, plan) ==
    LET r == add_credits(w, u, plan.credit_limit, "none")
    IN IF r.outcome # "ok" THEN r
       ELSE Result(log_transaction(r.w, u), "ok", 0, 0)

allocate_subscription_credits(w, u, plan) ==
    LET r == add_credits(w, u, plan.credit_limit, plan.id)
    IN IF r.outcome # "ok" THEN r
       ELSE Result(log_transaction(r.w, u), "ok", 0, 0)

\* CreditService.get_user_credits: the balance key of the cache if it holds
\* an int, else the balance from persistence, which is then cached.
get_user_credits(w, u) ==
    LET g == IF w.cache_on THEN cache_get(w, BalanceKey(u)) ELSE [w |-> w, value |-> NoValue]
    IN IF w.cache_on /\ g.value.kind = "int"
       THEN [w |-> g.w, balance |-> g.value.n]
       ELSE LET balance == db_get_user_credits(g.w, u)
            IN [w |-> set_balance_cache(g.w, u, balance), balance |-> balance]

Allocate(u, plan) ==
    /\ Room
    /\ plan.id # "none" => FreeIds(expiry, ExpIds) # {}
    /\ LET r == allocate_subscription_credits(W, u, plan)
       IN Store(r.w) /\ last' = [Call("allocate", u, plan.credit_limit, 0, r)
                                   EXCEPT !.info = [kind |-> "plan", plan |-> plan.id]]
    /\ UNCHANGED <<pc, loc>>

GetUserCredits(u) ==
    /\ LET g == get_user_credits(W, u)
       IN Store(g.w) /\ last' = [Env("get_balance") EXCEPT !.user_id = u, !.ret = g.balance]
    /\ UNCHANGED <<pc, loc>>

NextAlloc ==
    \/ \E u \in Users, a \in Amounts, p \in Plans : Add(u, a, p)
    \/ \E u \in Users, plan \in SubscriptionPlans : Allocate(u, plan)
    \/ \E u \in Users, a \in DeductAmounts : Deduct(u, a)
    \/ \E u \in Users, a \in Amounts : Reserve(u, a)
    \/ \E u \in Users, t \in AsOfs : Expire(u, t)
    \/ \E u \in Users : GetCreditInfo(u)
    \/ \E u \in Users : GetUserCredits(u)

SpecAlloc == Init /\ [][NextAlloc]_vars

\* ------------------------------------------------------------ concurrent tasks
\* reserve_credits and deduct_credits run as tasks of one event loop on the
\* MongoDB backend. Every awaited persistence or cache call is a step of its
\* own; the code between two awaits runs with the step that ends the first.
\* pc names the call the task is waiting for.
Quiet == \A p \in Procs : pc[p] = "idle"
Running == {p \in Procs : pc[p] # "idle"}

InitConc ==
    /\ Init
    /\ backend = "mongo"

AddQuiet(u, amount) ==
    /\ Quiet
    /\ Add(u, amount, "none")

GetCreditInfoQuiet(u) ==
    /\ Quiet
    /\ GetCreditInfo(u)

\* The call is entered: amount > 0, the transaction scope is a no-op, and
\* get_user_credits_info issues its two reads.
Start(p, op, u, amount) ==
    /\ pc[p] = "idle"
    /\ Len(ledger) + Cardinality(Running) < MaxLedger
    /\ amount > 0
    /\ pc' = [pc EXCEPT ![p] = "read"]
    /\ loc' = [loc EXCEPT ![p] = Task(op, u, amount)]
    /\ UNCHANGED <<stores, last>>

\* After the second read of get_user_credits_info the admission check runs.
AfterReads(t) ==
    IF ~(t.got_balance /\ t.got_reserved) THEN "read"
    ELSE IF t.balance - t.reserved < t.amount THEN "log_error"
    ELSE "persist"

ReadBalance(p) ==
    /\ pc[p] = "read"
    /\ ~loc[p].got_balance
    /\ LET t == [loc[p] EXCEPT !.got_balance = TRUE,
                               !.balance = mongo_get_user_credits(W, loc[p].user_id)]
       IN /\ loc' = [loc EXCEPT ![p] = t]
          /\ pc' = [pc EXCEPT ![p] = AfterReads(t)]
    /\ UNCHANGED <<stores, last>>

ReadReserved(p) ==
    /\ pc[p] = "read"
    /\ ~loc[p].got_reserved
    /\ LET t == [loc[p] EXCEPT !.got_reserved = TRUE,
                               !.reserved = mongo_get_reserved_credits_for_user(W, loc[p].user_id)]
       IN /\ loc' = [loc EXCEPT ![p] = t]
          /\ pc' = [pc EXCEPT ![p] = AfterReads(t)]
    /\ UNCHANGED <<stores, last>>

LogError(p) ==
    /\ pc[p] = "log_error"
    /\ Store(log_error(W, loc[p].user_id))
    /\ loc' = [loc EXCEPT ![p].outcome = "InsufficientCredits"]
    /\ pc' = [pc EXCEPT ![p] = "done"]
    /\ UNCHANGED last

\* add_reserved_credits of a new reservation (reserve), add_transaction of the
\* balance computed from the balance read earlier (deduct).
Persist(p) ==
    /\ pc[p] = "persist"
    /\ loc[p].op = "reserve" => FreeIds(objs, ResIds) # {}
    /\ LET t == loc[p]
           id == NextId(objs, ResIds)
           new_balance == t.balance - t.amount
       IN IF t.op = "reserve"
          THEN /\ Store(db_add_reserved_credits(
                            [W EXCEPT !.objs[id] = ReservedCredits(t.user_id, t.amount, "none")],
                            id))
               /\ loc' = [loc EXCEPT ![p].rid = id, ![p].ret = t.amount]
          ELSE /\ Store(db_add_transaction(
                            W, Transaction(t.user_id, 0, t.amount, new_balance, "deduct")))
               /\ loc' = [loc EXCEPT ![p].ret = new_balance]
    /\ pc' = [pc EXCEPT ![p] = "log"]
    /\ UNCHANGED last

Log(p) ==
    /\ pc[p] = "log"
    /\ Store(log_transaction(W, loc[p].user_id))
    /\ pc' = [pc EXCEPT ![p] = IF ~cache_on THEN "done"
                                 ELSE IF loc[p].op = "deduct" THEN "cache_balance"
                                 ELSE "cache_get"]
    /\ UNCHANGED <<loc, last>>

CacheBalance(p) ==
    /\ pc[p] = "cache_balance"
    /\ Store(cache_set(W, BalanceKey(loc[p].user_id), IntValue(loc[p].ret), NoTtl))
    /\ pc' = [pc EXCEPT ![p] = "cache_get"]
    /\ UNCHANGED <<loc, last>>

\* _update_credit_info_cache: the read of the cached aggregate ...
CacheGet(p) ==
    /\ pc[p] = "cache_get"
    /\ LET g == cache_get(W, InfoKey(loc[p].user_id))
       IN /\ Store(g.w)
          /\ loc' = [loc EXCEPT ![p].cached = g.value]
          /\ pc' = [pc EXCEPT ![p] = IF IsDict(g.value) /\ model_validate_ok(g.value)
                                       THEN "cache_set" ELSE "done"]
    /\ UNCHANGED last

\* ... and the write of the aggregate with the deltas applied to what was read.
CacheSet(p) ==
    /\ pc[p] = "cache_set"
    /\ LET t == loc[p]
           balance_delta == IF t.op = "deduct" THEN -(t.amount) ELSE 0
           reserved_delta == IF t.op = "reserve" THEN t.amount ELSE 0
       IN Store(cache_set(W, InfoKey(t.user_id),
                          UserCreditInfo(t.cached.balance + balance_delta,
                                         t.cached.reserved + reserved_delta),
                          CacheTtlSeconds))
    /\ pc' = [pc EXCEPT ![p] = "done"]
    /\ UNCHANGED <<loc, last>>

Return(p) ==
    /\ pc[p] = "done"
    /\ last' = Call(loc[p].op, loc[p].user_id, loc[p].amount, loc[p].rid, loc[p])
    /\ pc' = [pc EXCEPT ![p] = "idle"]
    /\ loc' = [loc EXCEPT ![p] = NoTask]
    /\ UNCHANGED stores

NextConc ==
    \/ \E u \in Users, a \in Amounts : AddQuiet(u, a)
    \/ \E u \in Users : GetCreditInfoQuiet(u)
    \/ \E p \in Procs, u \in Users, a \in Amounts : Start(p, "reserve", u, a)
    \/ \E p \in Procs, u \in Users, a \in Amounts : Start(p, "deduct", u, a)
    \/ \E p \in Procs : ReadBalance(p)
    \/ \E p \in Procs : ReadReserved(p)
    \/ \E p \in Procs : LogError(p)
    \/ \E p \in Procs : Persist(p)
    \/ \E p \in Procs : Log(p)
    \/ \E p \in Procs : CacheBalance(p)
    \/ \E p \in Procs : CacheGet(p)
    \/ \E p \in Procs : CacheSet(p)
    \/ \E p \in Procs : Return(p)

SpecConc == InitConc /\ [][NextConc]_vars

\* ------------------------------------------------------------ account records
\* add_user: the host registers a UserAccount (current_credits defaults to 0)
\* under the id the engine is later called with.
db_add_user(w, u, current_credits) == [w EXCEPT !.users[u] = current_credits]

AddUser(u) ==
    /\ users[u] = -1
    /\ Store(db_add_user(W, u, 0))
    /\ last' = [Env("add_user") EXCEPT !.user_id = u]
    /\ UNCHANGED <<pc, loc>>

NextAccounts ==
    \/ \E u \in Users : AddUser(u)
    \/ \E u \in Users, a \in Amounts, p \in Plans : Add(u, a, p)
    \/ \E u \in Users, a \in DeductAmounts : Deduct(u, a)
    \/ \E u \in Users, a \in ForcedAmounts : DeductAfterService(u, a)
    \/ \E u \in Users, a \in Amounts : Reserve(u, a)
    \/ \E id \in ResIds : Commit(id)
    \/ \E u \in Users, t \in AsOfs : Expire(u, t)
    \/ \E u \in Users : GetCreditInfo(u)

SpecAccounts == Init /\ [][NextAccounts]_vars


\* ------------------------------------------------------------ two accounts
\* Calls for either account, one after the other in any order.
NextUsers ==
    \/ \E u \in AllUsers, p \in Plans : Add(u, 50, p)
    \/ \E u \in AllUsers : Deduct(u, 1)
    \/ \E u \in AllUsers : DeductAfterService(u, 20)
    \/ \E u \in AllUsers : Reserve(u, 20)
    \/ \E id \in ResIds : Unreserve(id)
    \/ \E id \in ResIds : Commit(id)
    \/ \E u \in AllUsers, t \in AsOfs : Expire(u, t)
    \/ \E u \in AllUsers : GetCreditInfo(u)

SpecUsers == Init /\ [][NextUsers]_vars

\* ------------------------------------------------------------ request boundary adapter
DefaultEstimatedTokens == 100

NoHeader == [kind |-> "absent"]
EstimateHeaders == {NoHeader, [kind |-> "malformed"], [kind |-> "int", n |-> 0],
                    [kind |-> "int", n |-> 20]}
UserHeaders == Users \cup {""}
WrappedResults == {[kind |-> "raise"], [kind |-> "no_usage"], [kind |-> "bad_usage"],
                   [kind |-> "usage", n |-> 0], [kind |-> "usage", n |-> 20],
                   [kind |-> "usage", n |-> 60]}

\* max(1, int(header or default)); a malformed header gives the default as it is.
estimated_tokens(h) ==
    IF h.kind = "absent" THEN Max(1, DefaultEstimatedTokens)
    ELSE IF h.kind = "int" THEN Max(1, h.n)
    ELSE DefaultEstimatedTokens

Response(w, status, deducted, rid, called) ==
    [w |-> w, status |-> status, deducted |-> deducted, rid |-> rid, called |-> called]

\* Variant: a failure of the wrapped operation leaves the reservation held.
dispatch_no_release(w, user_id, h, res) ==
    IF user_id = "" THEN Response(w, "401", 0, 0, FALSE)
    ELSE LET r == reserve_credits(w, user_id, estimated_tokens(h), "none")
         IN IF r.outcome = "InsufficientCredits" THEN Response(r.w, "402", 0, 0, FALSE)
            ELSE IF r.outcome # "ok" THEN Response(r.w, "raised", 0, 0, FALSE)
            ELSE IF res.kind = "raise"
                 THEN Response(r.w, "raised", 0, r.rid, TRUE)
            ELSE IF res.kind = "usage" /\ res.n > 0
                 THEN LET w1 == unreserve_credits(r.w, r.rid).w
                          d == deduct_credits(w1, user_id, res.n)
                      IN IF d.outcome = "ok"
                         THEN Response(d.w, "200", res.n, r.rid, TRUE)
                         ELSE Response(unreserve_credits(d.w, r.rid).w, "200", 0, r.rid, TRUE)
            ELSE Response(unreserve_credits(r.w, r.rid).w, "200", 0, r.rid, TRUE)


\* Variant: a refused reservation does not stop the request.
dispatch_unadmitted(w, user_id, h, res) ==
    IF user_id = "" THEN Response(w, "401", 0, 0, FALSE)
    ELSE LET r == reserve_credits(w, user_id, estimated_tokens(h), "none")
         IN IF r.outcome = "InsufficientCredits" THEN Response(r.w, "200", 0, 0, TRUE)
            ELSE IF r.outcome # "ok" THEN Response(r.w, "raised", 0, 0, FALSE)
            ELSE IF res.kind = "raise"
                 THEN Response(unreserve_credits(r.w, r.rid).w, "raised", 0, r.rid, TRUE)
            ELSE IF res.kind = "usage" /\ res.n > 0
                 THEN LET w1 == unreserve_credits(r.w, r.rid).w
                          d == deduct_credits(w1, user_id, res.n)
                      IN IF d.outcome = "ok"
                         THEN Response(d.w, "200", res.n, r.rid, TRUE)
                         ELSE Response(unreserve_credits(d.w, r.rid).w, "200", 0, r.rid, TRUE)
            ELSE Response(unreserve_credits(r.w, r.rid).w, "200", 0, r.rid, TRUE)

\* CreditDeductionMiddleware.dispatch for a path the middleware applies to.
\* res is what the wrapped operation does when it is called.
dispatch(w, user_id, h, res) ==
    IF user_id = "" THEN Response(w, "401", 0, 0, FALSE)
    ELSE LET r == reserve_credits(w, user_id, estimated_tokens(h), "none")
         IN IF r.outcome = "InsufficientCredits" THEN Response(r.w, "402", 0, 0, FALSE)
            ELSE IF r.outcome # "ok" THEN Response(r.w, "raised", 0, 0, FALSE)
            ELSE IF res.kind = "raise"
                 THEN Response(unreserve_credits(r.w, r.rid).w, "raised", 0, r.rid, TRUE)
            ELSE IF res.kind = "usage" /\ res.n > 0
                 THEN LET w1 == unreserve_credits(r.w, r.rid).w
                          d == deduct_credits(w1, user_id, res.n)
                      IN IF d.outcome = "ok"
                         THEN Response(d.w, "200", res.n, r.rid, TRUE)
                         ELSE Response(unreserve_credits(d.w, r.rid).w, "200", 0, r.rid, TRUE)
            ELSE Response(unreserve_credits(r.w, r.rid).w, "200", 0, r.rid, TRUE)

Usage(res) == IF res.kind = "usage" THEN res.n ELSE 0

Dispatch(user_id, h, res) ==
    /\ Room
    /\ FreeIds(objs, ResIds) # {}
    /\ LET r == dispatch(W, user_id, h, res)
       IN /\ Store(r.w)
          /\ last' = [op |-> "dispatch", user_id |-> user_id, amount |-> Usage(res),
                      rid |-> r.rid, outcome |-> r.status, ret |-> r.deducted,
                      info |-> [kind |-> res.kind, called |-> r.called,
                                estimated |-> estimated_tokens(h)],
                      cached |-> "none"]
    /\ UNCHANGED <<pc, loc>>

NextAdapter ==
    \/ \E u \in Users, a \in Amounts : Add(u, a, "none")
    \/ \E u \in UserHeaders, h \in EstimateHeaders, res \in WrappedResults : Dispatch(u, h, res)
    \/ \E u \in Users : GetCreditInfo(u)

SpecAdapter == Init /\ [][NextAdapter]_vars

\* ------------------------------------------------------------ the adapter's estimate
\* The estimate under a configured default_estimated_tokens: the header, or
\* str(default) when it is absent, goes through max(1, int(.)); a value int()
\* rejects gives the default as it is.
estimate(h, default) ==
    IF h.kind = "absent" THEN Max(1, default)
    ELSE IF h.kind = "int" THEN Max(1, h.n)
    ELSE default

\* dispatch of a middleware constructed with default_estimated_tokens = default.
dispatch_configured(w, user_id, h, res, default) ==
    IF user_id = "" THEN Response(w, "401", 0, 0, FALSE)
    ELSE LET r == reserve_credits(w, user_id, estimate(h, default), "none")
         IN IF r.outcome = "InsufficientCredits" THEN Response(r.w, "402", 0, 0, FALSE)
            ELSE IF r.outcome # "ok" THEN Response(r.w, "raised", 0, 0, FALSE)
            ELSE IF res.kind = "raise"
                 THEN Response(unreserve_credits(r.w, r.rid).w, "raised", 0, r.rid, TRUE)
            ELSE IF res.kind = "usage" /\ res.n > 0
                 THEN LET w1 == unreserve_credits(r.w, r.rid).w
                          d == deduct_credits(w1, user_id, res.n)
                      IN IF d.outcome = "ok"
                         THEN Response(d.w, "200", res.n, r.rid, TRUE)
                         ELSE Response(unreserve_credits(d.w, r.rid).w, "200", 0, r.rid, TRUE)
            ELSE Response(unreserve_credits(r.w, r.rid).w, "200", 0, r.rid, TRUE)

AnyHeaders == {NoHeader, [kind |-> "malformed"], [kind |-> "int", n |-> -3],
               [kind |-> "int", n |-> 20]}
Defaults == {0, 20}
EstimateResults == {[kind |-> "raise"], [kind |-> "no_usage"], [kind |-> "usage", n |-> 20]}

DispatchConfigured(user_id, h, res, default) ==
    /\ Room
    /\ FreeIds(objs, ResIds) # {}
    /\ LET r == dispatch_configured(W, user_id, h, res, default)
       IN /\ Store(r.w)
          /\ last' = [op |-> "dispatch", user_id |-> user_id, amount |-> Usage(res),
                      rid |-> r.rid, outcome |-> r.status, ret |-> r.deducted,
                      info |-> [kind |-> res.kind, called |-> r.called,
                                estimated |-> estimate(h, default),
                                header |-> h.kind, default |-> default],
                      cached |-> "none"]
    /\ UNCHANGED <<pc, loc>>

NextEstimate ==
    \/ \E u \in Users, a \in Amounts : Add(u, a, "none")
    \/ \E u \in UserHeaders, h \in AnyHeaders, res \in EstimateResults, d \in Defaults :
          DispatchConfigured(u, h, res, d)
    \/ \E u \in Users : GetCreditInfo(u)

SpecEstimate == Init /\ [][NextEstimate]_vars


\* ------------------------------------------------------------ what the claims speak about
\* The reservations that are active for a user, as the callers hold them.
ActiveIds(u) == {i \in ResIds : IsActive(objs[i]) /\ objs[i].user_id = u}
ActiveSum(u) == SumOver(ActiveIds(u), [i \in ResIds |-> objs[i].credits])

\* What getCreditInfo(u) would return if it were called now.
Reported(u) == get_user_credits_info(W, u).info

Succeeded(op) == last.op = op /\ last.outcome = "ok"

\* ------------------------------------------------------------ C3
\* C3: reserve(user, amount) succeeds exactly when amount <= balance minus the
\* sum of the active reservation amounts; a failing reserve raises
\* InsufficientCredits, creates no reservation and leaves every reservation as
\* it was (the active ones stay active and counted).
C3_ReserveAdmission ==
    [][\A u \in Users :
         (last'.op = "reserve" /\ last'.user_id = u) =>
            /\ last'.outcome \in {"ok", "InsufficientCredits"}
            /\ (last'.outcome = "ok") <=> (last'.amount <= Balance(u) - ActiveSum(u))
            /\ last'.outcome = "ok" =>
                  /\ last'.rid \notin HeldIds
                  /\ objs'[last'.rid] = ReservedCredits(u, last'.amount, "none")
                  /\ ActiveSum(u)' = ActiveSum(u) + last'.amount
            /\ last'.outcome = "InsufficientCredits" =>
                  /\ objs' = objs
                  /\ reserved_docs' = reserved_docs
                  /\ reserved_list' = reserved_list
                  /\ Reserved(u)' = ActiveSum(u)
                  /\ ActiveIds(u)' = ActiveIds(u)]_vars

\* A second reserve was refused while a first reservation is active and counted.
C3_Witness ==
    /\ last.op = "reserve"
    /\ last.outcome = "InsufficientCredits"
    /\ \E u \in Users : last.user_id = u /\ ActiveIds(u) # {} /\ Reserved(u) > 0
                        /\ Balance(u) >= last.amount

\* ------------------------------------------------------------ C4
\* C4: no reservation ever has both flags, committed and released, set.
C4_AtMostOneTerminalFlag ==
    \A i \in ResIds :
        /\ objs[i].kind = "res" => ~(objs[i].committed /\ objs[i].released)
        /\ reserved_docs[i].kind = "res" =>
               ~(reserved_docs[i].committed /\ reserved_docs[i].released)

\* ------------------------------------------------------------ C5
\* C5: unreserve of a reservation that has been committed does not decrement
\* the reserved total again, neither in persistence nor in the figure
\* getCreditInfo reports, which stays at or above the active sum and above 0.
C5_NoDoubleRelease ==
    [][\A i \in ResIds :
         (last'.op = "unreserve" /\ last'.rid = i /\ objs[i].kind = "res" /\ objs[i].committed) =>
            LET u == objs[i].user_id
            IN /\ Reserved(u)' = Reserved(u)
               /\ Reported(u).reserved' = Reported(u).reserved
               /\ Reported(u).reserved' >= ActiveSum(u)'
               /\ Reported(u).reserved' >= 0]_vars

\* ------------------------------------------------------------ C7
\* C7: deduct(user, amount) succeeds exactly when amount <= available; then the
\* balance drops by amount, reserved is unchanged and available stays >= 0;
\* otherwise it raises InsufficientCredits and leaves transactions,
\* reservations and cache as they were.
C7_DeductAdmission ==
    [][\A u \in Users :
         (last'.op = "deduct" /\ last'.user_id = u) =>
            /\ last'.outcome \in {"ok", "InsufficientCredits"}
            /\ (last'.outcome = "ok") <=> (last'.amount <= Balance(u) - ActiveSum(u))
            /\ last'.outcome = "ok" =>
                  /\ Balance(u)' = Balance(u) - last'.amount
                  /\ Reserved(u)' = Reserved(u)
                  /\ ActiveSum(u)' = ActiveSum(u)
                  /\ Balance(u)' - ActiveSum(u)' >= 0
            /\ last'.outcome = "InsufficientCredits" =>
                  /\ txs' = txs
                  /\ Balance(u)' = Balance(u)
                  /\ objs' = objs
                  /\ reserved_docs' = reserved_docs
                  /\ reserved_list' = reserved_list
                  /\ cache' = cache]_vars

\* deduct of 1 was refused on an account whose available credit is negative.
C7_Witness ==
    /\ last.op = "deduct"
    /\ last.amount = 1
    /\ last.outcome = "InsufficientCredits"
    /\ \E u \in Users : last.user_id = u /\ Balance(u) - ActiveSum(u) < 0

\* ------------------------------------------------------------ C8
\* C8: deductAfterService always succeeds and sets the balance to the prior
\* balance minus amount, appending one DEDUCT transaction whose snapshot is
\* the new balance.
C8_ForcedDeduct ==
    [][\A u \in Users :
         (last'.op = "deduct_after_service" /\ last'.user_id = u) =>
            /\ last'.outcome = "ok"
            /\ Balance(u)' = Balance(u) - last'.amount
            /\ last'.ret = Balance(u) - last'.amount
            /\ txs' = Append(txs, Transaction(u, 0, last'.amount,
                                              Balance(u) - last'.amount, "deduct"))]_vars

\* From balance 50, amounts 60 then 20 gave balances -10 then -30.
C8_Witness ==
    /\ Succeeded("deduct_after_service")
    /\ Len(txs) = 3
    /\ txs[1].current_credits = 50
    /\ txs[2].transaction_type = "deduct" /\ txs[2].credits_deducted = 60
    /\ txs[2].current_credits = -10
    /\ txs[3].transaction_type = "deduct" /\ txs[3].credits_deducted = 20
    /\ txs[3].current_credits = -30
    /\ \E u \in Users : Balance(u) = -30

\* ------------------------------------------------------------ C1
\* C1: after every successful add, deduct, reserve, commit or unreserve (cache
\* configured), getCreditInfo returns an available figure equal to its balance
\* minus the sum of the user's reservation amounts that are active in
\* persistence.
C1_ReportedAvailable ==
    \A u \in Users :
        (/\ cache_on
         /\ last.op \in {"add", "deduct", "reserve", "commit", "unreserve"}
         /\ last.outcome = "ok"
         /\ last.user_id = u)
        => Reported(u).available = Reported(u).balance - Reserved(u)

\* ------------------------------------------------------------ C9
\* C9: without deductAfterService the balance of every user is >= 0 in every
\* reachable state.
C9_BalanceNonNegative == \A u \in Users : Balance(u) >= 0

\* An expiry sweep larger than the balance was clamped to 0.
C9_Witness ==
    /\ Succeeded("expire")
    /\ Len(txs) >= 2
    /\ txs[Len(txs)].transaction_type = "expire"
    /\ txs[Len(txs)].credits_deducted > txs[Len(txs) - 1].current_credits
    /\ \E u \in Users : last.user_id = u /\ Balance(u) = 0

\* ------------------------------------------------------------ C10
\* C10: without deductAfterService, available (balance minus the sum of the
\* active reservation amounts) is >= 0 in every reachable state.
C10_AvailableNonNegative == \A u \in Users : Balance(u) - ActiveSum(u) >= 0

\* ------------------------------------------------------------ C2
\* C2: per-user atomicity. No other operation on the user runs between the
\* admission check of a reserve and its mutation, so that two concurrent
\* reserves never both pass a stale check: as long as the balance has only
\* been added to, the sum of the active reservation amounts never exceeds it.
C2_PerUserAtomicity ==
    \A u \in Users :
        (\A i \in 1..Len(txs) : txs[i].transaction_type = "add") => ActiveSum(u) <= Balance(u)

\* ------------------------------------------------------------ C6
\* C6: when the wrapped operation succeeds and reports a positive actual usage
\* a, the adapter releases its hold and the balance after the request is the
\* balance before it minus a, whatever the estimate and the available credit.
C6_ChargesActualUsage ==
    [][\A u \in Users :
         (/\ last'.op = "dispatch"
          /\ last'.user_id = u
          /\ last'.info.kind = "usage"
          /\ last'.info.called
          /\ last'.amount > 0)
         => /\ Balance(u)' = Balance(u) - last'.amount
            /\ ActiveIds(u)' = ActiveIds(u)]_vars

\* ------------------------------------------------------------ C11
\* C11: commit(r) on an active reservation r with balance >= r.amount sets
\* committed, lowers balance and reserved by r.amount each (available is
\* unchanged, in persistence and in the reported aggregate) and appends one
\* COMMIT_RESERVED transaction whose snapshot is the new balance; no other
\* operation changes both balance and reserved.
C11_CommitMovesBoth ==
    [][/\ \A i \in ResIds :
            (/\ last'.op = "commit"
             /\ last'.rid = i
             /\ IsActive(objs[i])
             /\ Balance(objs[i].user_id) >= objs[i].credits)
            => LET u == objs[i].user_id
                   c == objs[i].credits
               IN /\ last'.outcome = "ok"
                  /\ objs'[i] = [objs[i] EXCEPT !.committed = TRUE]
                  /\ Balance(u)' = Balance(u) - c
                  /\ Reserved(u)' = Reserved(u) - c
                  /\ Available(u)' = Available(u)
                  /\ Reported(u).balance' = Reported(u).balance - c
                  /\ Reported(u).reserved' = Reported(u).reserved - c
                  /\ txs' = Append(txs, Transaction(u, 0, c, Balance(u) - c,
                                                    "commit_reserved"))
       /\ \A u \in Users :
            (Balance(u)' # Balance(u) /\ Reserved(u)' # Reserved(u)) => last'.op = "commit"]_vars

\* A commit of an active reservation went through while another one stays held.
C11_Witness ==
    /\ Succeeded("commit")
    /\ objs[last.rid].committed /\ ~objs[last.rid].released
    /\ txs[Len(txs)].transaction_type = "commit_reserved"
    /\ txs[Len(txs)].current_credits = Balance(last.user_id)
    /\ Reserved(last.user_id) > 0

\* ------------------------------------------------------------ C12
\* C12: commit(r) fails with InsufficientCredits exactly when the raw balance
\* is below r.amount, whatever is reserved otherwise; a failed commit leaves
\* the reservation as it was (an active one stays active) and leaves balance,
\* transactions and cache unchanged.
C12_CommitAdmission ==
    [][\A i \in ResIds :
         (last'.op = "commit" /\ last'.rid = i) =>
            LET u == objs[i].user_id
                c == objs[i].credits
            IN /\ last'.outcome \in {"ok", "InsufficientCredits"}
               /\ (last'.outcome = "InsufficientCredits") <=> (Balance(u) < c)
               /\ last'.outcome = "InsufficientCredits" =>
                     /\ objs' = objs
                     /\ reserved_docs' = reserved_docs
                     /\ reserved_list' = reserved_list
                     /\ IsActive(objs[i]) => IsActive(objs'[i])
                     /\ txs' = txs
                     /\ Balance(u)' = Balance(u)
                     /\ cache' = cache]_vars

\* A commit of an active reservation was refused on a balance below its amount.
C12_Witness ==
    /\ last.op = "commit"
    /\ last.outcome = "InsufficientCredits"
    /\ IsActive(objs[last.rid])
    /\ Balance(last.user_id) < objs[last.rid].credits
    /\ Reserved(last.user_id) = objs[last.rid].credits

\* ------------------------------------------------------------ C13
\* C13: expire(user, as_of) never leaves the balance below 0, and after it
\* every record of the user with expires_at <= as_of has remaining_credits = 0
\* and expired = true, while the records with expires_at > as_of are unchanged.
C13_ExpireSweeps ==
    [][\A u \in Users :
         (last'.op = "expire" /\ last'.user_id = u) =>
            /\ Balance(u)' >= 0
            /\ \A i \in ExpIds :
                 (expiry[i].kind = "exp" /\ expiry[i].user_id = u) =>
                    IF expiry[i].expires_at <= last'.info.t
                    THEN expiry'[i].remaining_credits = 0 /\ expiry'[i].expired
                    ELSE expiry'[i] = expiry[i]]_vars

\* ------------------------------------------------------------ C14
\* C14: after expire(user, as_of) with the cache configured, the balance that
\* getCreditInfo(user) reports equals the balance held in persistence, also
\* when the expired total exceeds the balance and the balance is clamped to 0.
C14_CacheFollowsExpire ==
    \A u \in Users :
        (/\ cache_on
         /\ last.op = "expire"
         /\ last.outcome = "ok"
         /\ last.user_id = u)
        => Reported(u).balance = Balance(u)

\* ------------------------------------------------------------ C15
\* C15: getCreditInfo(user) returns the cached aggregate when a well-formed one
\* is present; when the entry is absent, expired or structurally invalid it
\* returns the value computed from persistence (balance, sum of the active
\* reservations, their difference), puts that value into the cache under the
\* 300s TTL, and raises nothing.
C15_ReadThrough ==
    [][\A u \in Users :
         (cache_on /\ last'.op = "get_info" /\ last'.user_id = u) =>
            LET e == cache[InfoKey(u)]
                fresh == e.present /\ (e.expires_at = NoTtl \/ e.expires_at >= now)
                computed == UserCreditInfo(Balance(u), Reserved(u))
            IN /\ last'.outcome = "ok"
               /\ IF fresh /\ e.value.kind = "dict"
                  THEN last'.info = e.value /\ cache' = cache
                  ELSE /\ last'.info = computed
                       /\ cache'[InfoKey(u)] =
                              [present |-> TRUE, value |-> computed,
                               expires_at |-> now + CacheTtlSeconds]]_vars

\* getCreditInfo found a dict that fails validation and answered from persistence.
C15_Witness ==
    /\ cache_on
    /\ last.op = "get_info"
    /\ last.cached = "baddict"
    /\ Balance(last.user_id) > 0
    /\ Reserved(last.user_id) > 0
    /\ last.info = UserCreditInfo(Balance(last.user_id), Reserved(last.user_id))
    /\ cache[InfoKey(last.user_id)].value = last.info

\* ------------------------------------------------------------ C16
\* C16: the cache is disposable. From the same persistence state, whatever the
\* cache holds (nothing, an out-of-date aggregate, a payload that is not an
\* aggregate, the entry dropped), every call of add, deduct,
\* deductAfterService, reserve, commit, unreserve and expire has the same
\* outcome, the same return value and the same effect on persistence; state
\* by state, two runs that differ in their caches only stay equal on both.
Persistence(w) ==
    <<w.users, w.txs, w.expiry, w.expiry_list, w.objs, w.reserved_docs,
      w.reserved_list, w.ledger>>

OtherCaches ==
    {[k \in CacheKeys |-> NoEntry]}
    \cup {[cache EXCEPT ![InfoKey(u)] = NoEntry] : u \in Users}
    \cup {[cache EXCEPT ![InfoKey(u)] = [present |-> TRUE, value |-> v,
                                         expires_at |-> now + CacheTtlSeconds]] :
             u \in Users, v \in ForeignPayloads \cup {UserCreditInfo(0, 20)}}

SameEffect(r1, r2) ==
    /\ r1.outcome = r2.outcome
    /\ r1.ret = r2.ret
    /\ r1.rid = r2.rid
    /\ Persistence(r1.w) = Persistence(r2.w)

C17_SelfHealing ==
    \A u \in Users :
        (/\ cache_on
         /\ CachedKind(u) = "dict"
         /\ cache[InfoKey(u)].value # UserCreditInfo(Balance(u), Reserved(u)))
        => now <= populated_at[u] + CacheTtlSeconds

\* ------------------------------------------------------------ C18
\* C18: no lost balance update under concurrency. Once all concurrent calls
\* on a user have completed, the persisted balance equals the amounts of the
\* successful adds minus the amounts of the successful deductions (every
\* transaction on record is one successful call).
RECURSIVE NetOfTxs(_, _)
NetOfTxs(s, u) ==
    IF s = <<>> THEN 0
    ELSE NetOfTxs(Tail(s), u)
         + (IF Head(s).user_id = u
            THEN Head(s).credits_added - Head(s).credits_deducted ELSE 0)

C18_NoLostUpdate ==
    \A u \in Users : Quiet => Balance(u) = NetOfTxs(txs, u)

\* ------------------------------------------------------------ C19
\* C19: the cached aggregate stays coherent under concurrency. Once all
\* concurrent calls on a user have completed, a cached CreditInfo equals the
\* CreditInfo computed from persistence.
C19_CacheCoherent ==
    \A u \in Users :
        (Quiet /\ cache_on /\ CachedKind(u) = "dict")
        => cache[InfoKey(u)].value = UserCreditInfo(Balance(u), Reserved(u))

\* ------------------------------------------------------------ C20
\* C20: when a persistence or cache call fails midway through an operation,
\* nothing of the operation is observable afterwards: reservation flags,
\* balance, transactions, expiry records and the cached aggregate are what
\* they were before the call.
C20_NoPartialWrites ==
    [][last'.outcome = "StorageError" =>
          /\ objs' = objs
          /\ reserved_docs' = reserved_docs
          /\ reserved_list' = reserved_list
          /\ txs' = txs
          /\ \A u \in Users : Balance(u)' = Balance(u) /\ Reserved(u)' = Reserved(u)
          /\ expiry' = expiry
          /\ \A u \in Users : cache'[InfoKey(u)] = cache[InfoKey(u)]]_vars

\* ------------------------------------------------------------ C21
\* C21: when the audit sink fails while add records its audit entry (its
\* database write or its file write), add still succeeds for the caller and
\* its balance, expiry-record and cache effects are applied.
C21_SinkFailureTolerated ==
    [][\A u \in Users :
         (/\ last'.op = "add"
          /\ last'.user_id = u
          /\ last'.info.kind = "sink"
          /\ last'.info.mode # "ok")
         => /\ last'.outcome = "ok"
            /\ Balance(u)' = Balance(u) + last'.amount
            /\ last'.ret = Balance(u)'
            /\ Reported(u).balance' = Reported(u).balance + last'.amount]_vars


\* ------------------------------------------------------------ C22
\* C22: add, deduct, deductAfterService and reserve called with amount <= 0
\* are rejected with InvalidAmount and change no state: no transaction,
\* reservation, expiry record, audit entry or cache entry is created or
\* modified. A positive amount is never rejected that way.
C22_InvalidAmountRejected ==
    [][last'.op \in {"add", "deduct", "deduct_after_service", "reserve"} =>
          /\ (last'.outcome = "InvalidAmount") <=> (last'.amount <= 0)
          /\ last'.amount <= 0 =>
                /\ txs' = txs
                /\ users' = users
                /\ objs' = objs
                /\ reserved_docs' = reserved_docs
                /\ reserved_list' = reserved_list
                /\ expiry' = expiry
                /\ expiry_list' = expiry_list
                /\ ledger' = ledger
                /\ cache' = cache]_vars

\* reserve of 0 was rejected on an account that has credit available, a
\* reservation held and an aggregate cached.
C22_Witness ==
    /\ last.op = "reserve"
    /\ last.amount = 0
    /\ last.outcome = "InvalidAmount"
    /\ cache_on
    /\ CachedKind(last.user_id) = "dict"
    /\ Available(last.user_id) > 0
    /\ Reserved(last.user_id) > 0


\* ------------------------------------------------------------ C23
\* C23: commit or unreserve applied to a reservation that persistence does
\* not know fails with NotFound and changes no state: no reservation record
\* is created, and balance, reserved and the cached CreditInfo are unchanged.
C23_UnknownReservationRejected ==
    [][(last'.op \in {"commit", "unreserve"} /\ last'.info = [kind |-> "unknown"]) =>
          /\ last'.outcome = "NotFound"
          /\ reserved_docs' = reserved_docs
          /\ reserved_list' = reserved_list
          /\ txs' = txs
          /\ \A u \in Users :
               /\ Balance(u)' = Balance(u)
               /\ Reserved(u)' = Reserved(u)
               /\ cache'[InfoKey(u)] = cache[InfoKey(u)]]_vars


\* ------------------------------------------------------------ C24
\* C24: adapter admission. A request without the user-identity header is
\* answered 401; a request of an identified user whose estimate exceeds the
\* available credit (reserve raises InsufficientCredits) is answered 402.
\* In both cases the wrapped operation is not executed and no reservation,
\* transaction or balance change results.
C24_AdapterAdmission ==
    [][last'.op = "dispatch" =>
          /\ (last'.outcome = "401") <=> (last'.user_id = "")
          /\ \A u \in Users :
               last'.user_id = u =>
                  ((last'.outcome = "402") <=> (Available(u) < last'.info.estimated))
          /\ last'.outcome \in {"401", "402"} =>
                /\ ~last'.info.called
                /\ last'.rid = 0
                /\ objs' = objs
                /\ reserved_docs' = reserved_docs
                /\ reserved_list' = reserved_list
                /\ txs' = txs
                /\ users' = users
                /\ \A u \in Users : Balance(u)' = Balance(u) /\ Reserved(u)' = Reserved(u)]_vars

\* A request estimated at more than the credit the user has was answered 402.
C24_Witness ==
    /\ last.op = "dispatch"
    /\ last.outcome = "402"
    /\ last.user_id \in Users
    /\ ~last.info.called
    /\ Balance(last.user_id) > 0
    /\ last.info.estimated > Available(last.user_id)


\* ------------------------------------------------------------ C25
\* C25: adapter without charge. When the wrapped operation fails, or succeeds
\* without a positive actual-usage figure in its result, the adapter releases
\* its reservation, appends no transaction and leaves balance and available
\* credit as they were before the request; a failure of the wrapped operation
\* reaches the caller.
C25_AdapterNoCharge ==
    [][\A u \in Users :
         (/\ last'.op = "dispatch"
          /\ last'.user_id = u
          /\ last'.info.called
          /\ ~(last'.info.kind = "usage" /\ last'.amount > 0))
         => /\ (last'.outcome = "raised") <=> (last'.info.kind = "raise")
            /\ last'.outcome \in {"raised", "200"}
            /\ last'.ret = 0
            /\ objs'[last'.rid].kind = "res"
            /\ objs'[last'.rid].released
            /\ ~objs'[last'.rid].committed
            /\ ActiveIds(u)' = ActiveIds(u)
            /\ txs' = txs
            /\ Balance(u)' = Balance(u)
            /\ Available(u)' = Available(u)]_vars

\* The wrapped operation failed on a funded account: the hold is released and
\* the failure is the answer.
C25_Witness ==
    /\ last.op = "dispatch"
    /\ last.info.kind = "raise"
    /\ last.info.called
    /\ last.outcome = "raised"
    /\ objs[last.rid].released
    /\ Balance(last.user_id) > 0
    /\ Available(last.user_id) = Balance(last.user_id)


\* ------------------------------------------------------------ C26
\* C26: for any active reservation r, unreserve(r) increases available by
\* exactly r.amount and leaves the balance unchanged, and a reserve(r.user,
\* r.amount) issued right after it succeeds.
C26_ReleaseThenReserve ==
    [][\A i \in ResIds :
         (last'.op = "unreserve" /\ last'.rid = i /\ IsActive(objs[i])) =>
            LET u == objs[i].user_id
                c == objs[i].credits
            IN /\ last'.outcome = "ok"
               /\ Balance(u)' = Balance(u)
               /\ Available(u)' = Available(u) + c
               /\ (FreeIds(objs, ResIds) # {}
                   => reserve_credits(W, u, c, "none").outcome = "ok")']_vars

\* C26, for an account that is not overdrawn: for any active reservation r of
\* a user whose available credit is >= 0, unreserve(r) increases available by
\* exactly r.amount and leaves the balance unchanged, and a reserve(r.user,
\* r.amount) issued right after it succeeds; on an overdrawn account the
\* release still frees r.amount and the reserve succeeds exactly when the
\* available credit after the release reaches r.amount.
C26_ReleaseThenReserveFunded ==
    [][\A i \in ResIds :
         (last'.op = "unreserve" /\ last'.rid = i /\ IsActive(objs[i])) =>
            LET u == objs[i].user_id
                c == objs[i].credits
            IN /\ last'.outcome = "ok"
               /\ Balance(u)' = Balance(u)
               /\ Available(u)' = Available(u) + c
               /\ (FreeIds(objs, ResIds) # {}
                   => ((reserve_credits(W, u, c, "none").outcome = "ok")'
                       <=> Available(u) >= 0))]_vars

\* add, reserve and the release of that reservation, after which the freed
\* amount can be reserved again.
C26_Witness ==
    /\ Succeeded("unreserve")
    /\ Len(ledger) = 3
    /\ Len(txs) = 1
    /\ objs[last.rid].released
    /\ Reserved(last.user_id) = 0
    /\ Available(last.user_id) >= last.amount
    /\ FreeIds(objs, ResIds) # {}
    /\ reserve_credits(W, last.user_id, last.amount, "none").outcome = "ok"


\* ------------------------------------------------------------ C27
\* C27: the scenario from an empty account: add(100) and reserve(50) succeed;
\* reserve(55) raises InsufficientCredits; after unreserve of the 50
\* reservation reserve(55) succeeds; a following reserve(10) raises
\* InsufficientCredits.
C27_Scenario100 ==
    [][\A u \in Users :
         /\ (last'.op = "add" /\ last'.amount = 100 /\ Balance(u) = 0)
            => (last'.outcome = "ok" /\ Balance(u)' = 100)
         /\ (last'.op = "reserve" /\ last'.amount = 50 /\ Balance(u) = 100 /\ Reserved(u) = 0)
            => last'.outcome = "ok"
         /\ (last'.op = "reserve" /\ last'.amount = 55 /\ Balance(u) = 100 /\ Reserved(u) = 50)
            => last'.outcome = "InsufficientCredits"
         /\ (last'.op = "unreserve" /\ last'.amount = 50 /\ Balance(u) = 100 /\ Reserved(u) = 50)
            => (last'.outcome = "ok" /\ Reserved(u)' = 0)
         /\ (last'.op = "reserve" /\ last'.amount = 55 /\ Balance(u) = 100 /\ Reserved(u) = 0)
            => last'.outcome = "ok"
         /\ (last'.op = "reserve" /\ last'.amount = 10 /\ Balance(u) = 100 /\ Reserved(u) = 55)
            => last'.outcome = "InsufficientCredits"]_vars

\* C27, with the amount of the tests: from an empty account add(60) and
\* reserve(50) succeed; reserve(55) raises InsufficientCredits; after
\* unreserve of the 50 reservation reserve(55) succeeds; a following
\* reserve(10) raises InsufficientCredits (5 is available). After add(100)
\* the steps go the same way up to the last one, where 45 is available and
\* reserve(10) succeeds.
C27_Scenario60 ==
    [][\A u \in Users :
         /\ (last'.op = "add" /\ last'.amount = 60 /\ Balance(u) = 0)
            => (last'.outcome = "ok" /\ Balance(u)' = 60)
         /\ (last'.op = "reserve" /\ last'.amount = 50 /\ Balance(u) = 60 /\ Reserved(u) = 0)
            => last'.outcome = "ok"
         /\ (last'.op = "reserve" /\ last'.amount = 55 /\ Balance(u) = 60 /\ Reserved(u) = 50)
            => last'.outcome = "InsufficientCredits"
         /\ (last'.op = "unreserve" /\ last'.amount = 50 /\ Balance(u) = 60 /\ Reserved(u) = 50)
            => (last'.outcome = "ok" /\ Reserved(u)' = 0)
         /\ (last'.op = "reserve" /\ last'.amount = 55 /\ Balance(u) = 60 /\ Reserved(u) = 0)
            => last'.outcome = "ok"
         /\ (last'.op = "reserve" /\ last'.amount = 10 /\ Balance(u) = 60 /\ Reserved(u) = 55)
            => last'.outcome = "InsufficientCredits"
         /\ (last'.op = "reserve" /\ last'.amount = 10 /\ Balance(u) = 100 /\ Reserved(u) = 55)
            => (last'.outcome = "ok" /\ Reserved(u)' = 65)]_vars

\* The six calls of the scenario were made in order, from add(60).
C27_Witness ==
    /\ last.op = "reserve"
    /\ last.amount = 10
    /\ last.outcome = "InsufficientCredits"
    /\ Len(txs) = 1
    /\ txs[1].credits_added = 60
    /\ Len(ledger) = 6
    /\ [i \in 1..6 |-> ledger[i].event_type]
         = <<"transaction", "transaction", "error", "transaction", "transaction", "error">>
    /\ objs[1].credits = 50 /\ objs[1].released
    /\ objs[2].credits = 55 /\ IsActive(objs[2])
    /\ objs[3] = NoObj


\* ------------------------------------------------------------ C28
\* C28: operations on different users are independent. A call for user A
\* leaves B's balance, transactions, reservations, expiry records and cache
\* entries unchanged; its outcome, its return value and what it does to A's
\* own state are the same whatever B's state is, so that in any interleaving
\* each user's state is the one its own calls produce. No call waits for
\* another one: every call is a total operator on the world.
UserState(w, u) ==
    [txs |-> SelectSeq(w.txs, LAMBDA t : t.user_id = u),
     objs |-> [i \in ResIds |-> IF w.objs[i].kind = "res" /\ w.objs[i].user_id = u
                                THEN w.objs[i] ELSE NoObj],
     docs |-> [i \in ResIds |-> IF w.reserved_docs[i].kind = "res"
                                   /\ w.reserved_docs[i].user_id = u
                                THEN w.reserved_docs[i] ELSE NoObj],
     refs |-> SelectSeq(w.reserved_list, LAMBDA i : w.objs[i].user_id = u),
     expiry |-> [i \in ExpIds |-> IF w.expiry[i].kind = "exp" /\ w.expiry[i].user_id = u
                                  THEN w.expiry[i] ELSE NoObj],
     expiry_refs |-> SelectSeq(w.expiry_list, LAMBDA i : w.expiry[i].user_id = u),
     account |-> w.users[u],
     info |-> w.cache[InfoKey(u)],
     balance_key |-> w.cache[BalanceKey(u)],
     balance |-> db_get_user_credits(w, u),
     reserved |-> db_get_reserved_credits_for_user(w, u)]

\* The same world with another history for user b: no transactions, every
\* reservation released, every expiry record swept, nothing cached.
OtherStateOf(w, b) ==
    [w EXCEPT
       !.txs = SelectSeq(@, LAMBDA t : t.user_id # b),
       !.objs = [i \in ResIds |-> IF @[i].kind = "res" /\ @[i].user_id = b
                                  THEN [@[i] EXCEPT !.released = TRUE] ELSE @[i]],
       !.reserved_docs = [i \in ResIds |-> IF @[i].kind = "res" /\ @[i].user_id = b
                                           THEN [@[i] EXCEPT !.released = TRUE] ELSE @[i]],
       !.expiry = [i \in ExpIds |-> IF @[i].kind = "exp" /\ @[i].user_id = b
                                    THEN [@[i] EXCEPT !.expired = TRUE,
                                                      !.remaining_credits = 0]
                                    ELSE @[i]],
       !.cache = [@ EXCEPT ![InfoKey(b)] = NoEntry, ![BalanceKey(b)] = NoEntry]]

SameFor(r1, r2, a) ==
    /\ r1.outcome = r2.outcome
    /\ r1.ret = r2.ret
    /\ UserState(r1.w, a) = UserState(r2.w, a)

C28_Frame ==
    \A a \in AllUsers, b \in AllUsers :
        (a # b /\ last'.user_id = a) => UserState(W, b)' = UserState(W, b)

C28_Independent ==
    \A a \in AllUsers, b \in AllUsers :
        a # b =>
          LET X == OtherStateOf(W, b)
          IN /\ \A p \in Plans :
                  (p # "none" => FreeIds(expiry, ExpIds) # {})
                  => SameFor(add_credits(W, a, 50, p), add_credits(X, a, 50, p), a)
             /\ SameFor(deduct_credits(W, a, 1), deduct_credits(X, a, 1), a)
             /\ SameFor(deduct_credits_after_service(W, a, 20),
                        deduct_credits_after_service(X, a, 20), a)
             /\ FreeIds(objs, ResIds) # {}
                => SameFor(reserve_credits(W, a, 20, "none"),
                           reserve_credits(X, a, 20, "none"), a)
             /\ \A id \in HeldIds :
                  objs[id].user_id = a
                  => /\ SameFor(commit_reserved_credits(W, id),
                                commit_reserved_credits(X, id), a)
                     /\ SameFor(unreserve_credits(W, id), unreserve_credits(X, id), a)
             /\ \A t \in AsOfs :
                  SameFor(expire_credits(W, a, t), expire_credits(X, a, t), a)
             /\ get_user_credits_info(W, a).info = get_user_credits_info(X, a).info

C28_UsersIndependent ==
    /\ [][C28_Frame]_vars
    /\ []C28_Independent

\* A deduct for u2 went through between calls for u1, who holds a reservation.
C28_Witness ==
    /\ Succeeded("deduct")
    /\ last.user_id = "u2"
    /\ Balance("u2") = 49
    /\ Balance("u1") = 50
    /\ Reserved("u1") = 20


\* ------------------------------------------------------------ C29
\* What an add of last'.amount does, as seen over one step.
AddPostcondition(u) ==
    (last'.op \in {"add", "allocate"} /\ last'.user_id = u /\ last'.amount > 0) =>
        LET new_balance == Balance(u) + last'.amount
            made == {i \in ExpIds : expiry[i].kind = "none" /\ expiry'[i].kind = "exp"}
        IN /\ last'.outcome = "ok"
           /\ Balance(u)' = new_balance
           /\ last'.op = "add" => last'.ret = new_balance
           /\ txs' = Append(txs, Transaction(u, last'.amount, 0, new_balance, "add"))
           /\ Reserved(u)' = Reserved(u)
           /\ \A i \in ExpIds : expiry[i].kind = "exp" => expiry'[i] = expiry[i]
           /\ IF last'.info.plan # "none"
              THEN \E i \in ExpIds :
                      /\ made = {i}
                      /\ expiry'[i] = CreditExpiryRecord(u, last'.info.plan, last'.amount,
                                                         now + ExpiryHorizon)
                      /\ expiry'[i].remaining_credits = last'.amount
              ELSE made = {}
           /\ get_user_credits(W, u).balance' = new_balance

BalanceRead ==
    \A u \in Users :
        (last'.op = "get_balance" /\ last'.user_id = u) => last'.ret = Balance(u)

\* The state of the engine but for the audit trail.
EngineState(w) == [w EXCEPT !.ledger = <<>>]

CommitTxs(w, u) ==
    {i \in 1..Len(w.txs) : w.txs[i].user_id = u /\ w.txs[i].transaction_type = "commit_reserved"}

\* C30: a reservation is charged at most once: a commit applied to a
\* reservation that is already committed or already released does not
\* decrease the balance and does not append another COMMIT_RESERVED
\* transaction.
C30_ChargedAtMostOnce ==
    [][\A id \in ResIds :
         (/\ last'.op = "commit"
          /\ last'.rid = id
          /\ objs[id].kind = "res"
          /\ (objs[id].committed \/ objs[id].released)) =>
            /\ Balance(objs[id].user_id)' >= Balance(objs[id].user_id)
            /\ Cardinality(CommitTxs(W, objs[id].user_id))'
                   = Cardinality(CommitTxs(W, objs[id].user_id))]_vars


\* ------------------------------------------------------------ C31
\* The audit entries that record a state change (every reserve, unreserve,
\* deduct and commit that is applied writes exactly one).
TransactionEntries(l) == Cardinality({i \in 1..Len(l) : l[i].event_type = "transaction"})

\* C31: on every path after the adapter's reserve succeeded (the wrapped
\* operation fails, succeeds without usage, succeeds with positive usage, or
\* the deduction after it fails), unreserve is applied to the adapter's
\* reservation exactly once, and when the adapter returns the reservation is
\* no longer active.
C31_ReleasedExactlyOnce ==
    [][(last'.op = "dispatch" /\ last'.rid # 0) =>
          /\ ~IsActive(objs'[last'.rid])
          /\ TransactionEntries(ledger') - TransactionEntries(ledger)
                 = 2 + (IF last'.ret > 0 THEN 1 ELSE 0)]_vars


\* ------------------------------------------------------------ C32
\* C32: expire never increases a user's balance: the balance after
\* expire(user, as_of) is at most the balance before it, also when the balance
\* is already negative because of deductAfterService.
C32_ExpireNeverIncreases ==
    [][\A u \in Users :
         (last'.op = "expire" /\ last'.user_id = u) => Balance(u)' <= Balance(u)]_vars


\* ------------------------------------------------------------ C33
\* The transactions a step appends all carry the snapshot that `snapshot`
\* gives for the balance before the step, and the ones that were there stay.
ChainStep(snapshot(_, _)) ==
    /\ Len(txs') >= Len(txs)
    /\ SubSeq(txs', 1, Len(txs)) = txs
    /\ \A i \in (Len(txs) + 1)..Len(txs') :
          LET t == txs'[i]
          IN t.current_credits
                = snapshot(t, Balance(t.user_id) + t.credits_added - t.credits_deducted)

Unclamped(t, n) == n

ClampedOnExpire(t, n) == IF t.transaction_type = "expire" THEN Max(n, 0) ELSE n

\* C33 (as stated): each appended Transaction's snapshot equals the user's
\* balance immediately before the operation plus credits_added minus
\* credits_deducted, for add, deduct, deductAfterService, commit and expire;
\* no existing Transaction is ever modified or removed.
C33_LedgerChain == [][ChainStep(Unclamped)]_vars

\* C33 (amended): the same, but the snapshot of an EXPIRE transaction is
\* max(balance before - credits_deducted, 0).
C33_LedgerChainClamped == [][ChainStep(ClampedOnExpire)]_vars

\* An expiry whose clamp was engaged: more was swept than the account held.
C33_Witness ==
    /\ Succeeded("expire")
    /\ Len(txs) >= 2
    /\ txs[Len(txs)].transaction_type = "expire"
    /\ txs[Len(txs)].current_credits = 0
    /\ txs[Len(txs) - 1].current_credits > 0
    /\ txs[Len(txs) - 1].current_credits < txs[Len(txs)].credits_deducted


\* ------------------------------------------------------------ C34
\* C34: the balance read from persistence for a user always equals the
\* resulting-balance snapshot of that user's most recently appended
\* transaction (0 when there is none), whether or not an Account record
\* exists for the user in the store.
C34_BalanceIsLastSnapshot ==
    \A u \in Users : db_get_user_credits(W, u) = LastTxOf(txs, u)


\* ------------------------------------------------------------ C35
\* The user's records a sweep at as_of has to expire, and what they still hold.
DueIds(u, as_of) ==
    {i \in ExpIds : /\ expiry[i].kind = "exp"
                    /\ expiry[i].user_id = u
                    /\ ~expiry[i].expired
                    /\ expiry[i].expires_at <= as_of}
DueTotal(u, as_of) ==
    SumOver(DueIds(u, as_of), [i \in ExpIds |-> expiry[i].remaining_credits])

\* C35: expire(user, as_of) returns the sum of remaining_credits over the
\* user's non-expired records with expires_at <= as_of; it appends exactly one
\* EXPIRE transaction when that sum is > 0, and when the sum is 0 it appends no
\* transaction and changes neither balance nor cache.
C35_ExpireTotal ==
    [][\A u \in Users :
         (last'.op = "expire" /\ last'.user_id = u) =>
            LET total == DueTotal(u, last'.info.t)
            IN /\ last'.outcome = "ok"
               /\ last'.ret = total
               /\ total > 0 =>
                     /\ Len(txs') = Len(txs) + 1
                     /\ SubSeq(txs', 1, Len(txs)) = txs
                     /\ txs'[Len(txs')].user_id = u
                     /\ txs'[Len(txs')].transaction_type = "expire"
                     /\ txs'[Len(txs')].credits_deducted = total
               /\ total = 0 =>
                     /\ txs' = txs
                     /\ Balance(u)' = Balance(u)
                     /\ cache' = cache]_vars


\* ------------------------------------------------------------ C36
\* What an expire for the user and as_of of the expire that has just returned
\* does: it succeeds, returns 0 and changes nothing it could change.
SecondExpire(u) ==
    LET r == expire_credits(W, u, last.info.t)
    IN /\ r.outcome = "ok"
       /\ r.ret = 0
       /\ r.w.txs = txs
       /\ db_get_user_credits(r.w, u) = Balance(u)
       /\ r.w.expiry = expiry
       /\ r.w.cache = cache

\* C36: expire is idempotent for a fixed as_of: a second expire(user, as_of)
\* issued immediately after a first one succeeds, returns 0, appends no
\* transaction and leaves balance, expiry records and cache unchanged; each
\* expiry record's remaining_credits never increases and is 0 exactly when
\* expired = true after it has been swept.
C36_ExpireIdempotent ==
    /\ [][\A i \in ExpIds :
             expiry[i].kind = "exp" =>
                /\ expiry'[i].kind = "exp"
                /\ expiry'[i].remaining_credits <= expiry[i].remaining_credits]_vars
    /\ [](\A i \in ExpIds :
             expiry[i].kind = "exp" => (expiry[i].expired <=> expiry[i].remaining_credits = 0))
    /\ [](\A u \in Users : (last.op = "expire" /\ last.user_id = u) => SecondExpire(u))


\* ------------------------------------------------------------ C37
\* C37: whenever deduct, reserve or commit fails its admission check, exactly
\* one error entry for that user is appended to the audit sink before
\* InsufficientCredits is raised to the caller.
C37_AdmissionFailureLogged ==
    [][\A u \in Users :
         (/\ last'.op \in {"deduct", "reserve", "commit"}
          /\ last'.user_id = u
          /\ last'.outcome = "InsufficientCredits") =>
            ledger' = Append(ledger, LedgerEntry("error", u))]_vars

\* A commit was refused and the audit trail ends with its error entry.
C37_Witness ==
    /\ last.op = "commit"
    /\ last.outcome = "InsufficientCredits"
    /\ ledger # <<>>
    /\ ledger[Len(ledger)] = LedgerEntry("error", last.user_id)
    /\ \E i \in 1..Len(ledger) : ledger[i].event_type = "transaction"


\* ------------------------------------------------------------ C38
\* C38: for every estimated-cost header value (absent, an integer of any sign,
\* or malformed) and every configured default, the amount the adapter passes
\* to reserve is an integer >= 1, and a malformed header value falls back to
\* the default and never causes the request to be rejected or to fail: the
\* request is refused only for want of credit and fails only when the wrapped
\* operation fails.
C38_AdapterEstimate ==
    [][\A u \in Users :
         (last'.op = "dispatch" /\ last'.user_id = u) =>
            /\ last'.info.estimated \in Nat
            /\ last'.info.estimated >= 1
            /\ last'.info.header = "malformed" =>
                  /\ last'.info.estimated = last'.info.default
                  /\ (last'.outcome = "402") <=> (Available(u) < last'.info.default)
                  /\ last'.outcome = "raised" => last'.info.called]_vars


\* ------------------------------------------------------------ C39
\* C39: reserve and unreserve leave the user's balance and transaction list
\* unchanged: they append no Transaction and change only the reservation set,
\* the audit log and the reserved/available figures, in persistence and in
\* what getCreditInfo reports (a reserve that succeeds by +amount reserved, an
\* unreserve of an active reservation by -amount reserved).
C39_ReserveFrame ==
    [][\A u \in Users :
         (last'.op \in {"reserve", "unreserve"} /\ last'.user_id = u) =>
            LET delta == IF last'.op = "reserve"
                         THEN (IF last'.outcome = "ok" THEN last'.amount ELSE 0)
                         ELSE -(last'.amount)
                counted == last'.op = "reserve" \/ IsActive(objs[last'.rid])
            IN /\ txs' = txs
               /\ Balance(u)' = Balance(u)
               /\ Reported(u).balance' = Reported(u).balance
               /\ users' = users
               /\ expiry' = expiry
               /\ expiry_list' = expiry_list
               /\ Len(ledger') = Len(ledger) + 1
               /\ counted =>
                     /\ Reserved(u)' = Reserved(u) + delta
                     /\ Available(u)' = Available(u) - delta
                     /\ Reported(u).reserved' = Reported(u).reserved + delta
                     /\ Reported(u).available' = Reported(u).available - delta]_vars

\* An unreserve gave a cached aggregate its reserved amount back.
C39_Witness ==
    /\ Succeeded("unreserve")
    /\ cache_on
    /\ cache[InfoKey(last.user_id)].present
    /\ Balance(last.user_id) = 50
    /\ Reserved(last.user_id) = 20
    /\ Reported(last.user_id).available = 30
    /\ Len(txs) = 1

====
